---- MODULE Spec2Model ----
(***************************************************************************)
(* State-machine model of the in-memory microblogging backend:             *)
(* storage.py (the seven module-level stores), models.py (the request      *)
(* validators) and the routers (one action per mutating endpoint, one      *)
(* operator per read endpoint and per view builder).                       *)
(*                                                                         *)
(* Conventions.                                                            *)
(*  - A Python str that the code inspects (username, display_name, bio,    *)
(*    content) is a sequence of one-character strings.                     *)
(*  - Optional[T] is a sequence of length at most one: <<>> is None and    *)
(*    <<v>> is the value v.                                                *)
(*  - str(uuid4()) is modelled by the ordinal of the call among the calls  *)
(*    of its kind (user ids 1, 2, ...; tweet ids 1, 2, ...); 0 is an id    *)
(*    that uuid4 never returned.                                           *)
(*  - datetime.utcnow().isoformat() is the value of the wall clock; ISO    *)
(*    strings of one format compare as the instants they denote.           *)
(*  - The stores are the variables.  A handler is an operator from the     *)
(*    stores (the record S) and the request to the response status, the    *)
(*    stores it leaves (st) and the scalars it returns; the action of the  *)
(*    handler installs st.  A handler that returns a view returns the view *)
(*    builder's value in the stores it leaves.                             *)
(*  - storage.tweets and storage.hashtag_index are insertion-ordered       *)
(*    dicts whose iteration order the code depends on: they are sequences  *)
(*    of entries with distinct keys.  The other dicts are functions.       *)
(***************************************************************************)
EXTENDS Integers, Sequences, FiniteSets, TLC

\* ---------------------------------------------------------------- bounds
MaxUsers == 2
MaxPosts == 2
MaxClock == 1
MaxChain == 4
MaxThreads == 2

\* ------------------------------------------------------- python helpers
None == <<>>
Some(v) == <<v>>
IsNone(o) == Len(o) = 0
Val(o) == o[1]

Range(s) == {s[i] : i \in 1..Len(s)}

\* str.lower() on one character of the alphabet used by the inputs
LowerChar(c) ==
  CASE c = "A" -> "a"
    [] c = "B" -> "b"
    [] c = "C" -> "c"
    [] c = "T" -> "t"
    [] OTHER -> c

\* str.lower()
Lower(s) == [i \in 1..Len(s) |-> LowerChar(s[i])]

IsSpace(c) == c = " "

\* \w of the re module
IsWord(c) == c \in {"a", "A", "b", "B", "c", "C", "t", "T", "x", "_", "1"}

\* str.strip()
RECURSIVE LStrip(_)
LStrip(s) == IF s # <<>> /\ IsSpace(s[1]) THEN LStrip(Tail(s)) ELSE s
RECURSIVE RStrip(_)
RStrip(s) ==
  IF s # <<>> /\ IsSpace(s[Len(s)]) THEN RStrip(SubSeq(s, 1, Len(s) - 1)) ELSE s
Strip(s) == RStrip(LStrip(s))

\* _HASHTAG_RE / _MENTION_RE .findall(content): the word after each sigil, scanning
\* left to right, each match the longest run of \w characters after the sigil.
\* A sigil is not a \w character, so no match starts inside another one: the
\* matches are the sigils followed by a \w character, in the order of the text.
\* WordEnd(s, i) is the first position from i on that holds no \w character.
WordEnd(s, i) ==
  CHOOSE j \in i..(Len(s) + 1) :
    /\ \A k \in i..(j - 1) : IsWord(s[k])
    /\ j = Len(s) + 1 \/ ~IsWord(s[j])
FindAll(sigil, s, i) ==
  LET starts == {k \in i..Len(s) : s[k] = sigil /\ WordEnd(s, k + 1) > k + 1}
      nth(n) == CHOOSE k \in starts : Cardinality({j \in starts : j < k}) = n - 1
  IN [n \in 1..Cardinality(starts) |->
        SubSeq(s, nth(n) + 1, WordEnd(s, nth(n) + 1) - 1)]

\* list(dict.fromkeys(xs)): drop repeats, keep the order of first occurrence
RECURSIVE Dedup(_)
Dedup(xs) ==
  IF xs = <<>> THEN <<>>
  ELSE LET front == Dedup(SubSeq(xs, 1, Len(xs) - 1))
           last == xs[Len(xs)]
       IN IF last \in Range(front) THEN front ELSE Append(front, last)

_extract_hashtags(content) ==
  LET found == FindAll("#", content, 1)
  IN Dedup([i \in 1..Len(found) |-> Lower(found[i])])

_extract_mentions(content) == Dedup(FindAll("@", content, 1))

\* "x" * n
Repeat(c, n) == [i \in 1..n |-> c]

\* list.remove(x): drop the first occurrence
RemoveFirst(xs, x) ==
  LET i == CHOOSE k \in 1..Len(xs) : xs[k] = x /\ \A j \in 1..(k - 1) : xs[j] # x
  IN SubSeq(xs, 1, i - 1) \o SubSeq(xs, i + 1, Len(xs))

\* dict.get(key, default) and dict.setdefault(key, default) on a function
DictGet(d, k, default) == IF k \in DOMAIN d THEN d[k] ELSE default
\* the dict after d.setdefault(k, default)
SetDefault(d, k, default) ==
  IF k \in DOMAIN d THEN d ELSE [x \in DOMAIN d \cup {k} |-> IF x = k THEN default ELSE d[x]]
\* d[k] = v
DictSet(d, k, v) == [x \in DOMAIN d \cup {k} |-> IF x = k THEN v ELSE d[x]]
\* d.pop(k, None)
DictPop(d, k) == [x \in DOMAIN d \ {k} |-> d[x]]

\* ----------------------------------------------------------------- state
VARIABLES
  users,          \* storage.users         : user_id -> user dict
  usernames,      \* storage.usernames     : lowercased username -> user_id
  tweets,         \* storage.tweets        : sequence of tweet dicts, in insertion order
  followers,      \* storage.followers     : user_id -> set of user_ids
  following,      \* storage.following     : user_id -> set of user_ids
  likes,          \* storage.likes         : tweet_id -> set of user_ids
  hashtag_index,  \* storage.hashtag_index : sequence of [tag, ids], in insertion order
  uuid_tweets,    \* number of tweet ids uuid4 has handed out
  clock,          \* the wall clock read by datetime.utcnow()
  twin,           \* a second process of the application: its stores and its
                  \* count of tweet ids
  threads         \* the requests the worker threads are serving: for each
                  \* thread the handler it runs, the line it is at, its locals

vars == <<users, usernames, tweets, followers, following, likes, hashtag_index,
          uuid_tweets, clock, twin, threads>>

\* the seven stores of storage.py as one value
store ==
  [ users |-> users, usernames |-> usernames, tweets |-> tweets,
    followers |-> followers, following |-> following, likes |-> likes,
    hashtag_index |-> hashtag_index ]

\* reset_storage(): every store empty
EmptyStore ==
  [ users |-> <<>>, usernames |-> <<>>, tweets |-> <<>>,
    followers |-> <<>>, following |-> <<>>, likes |-> <<>>,
    hashtag_index |-> <<>> ]

\* ids a caller may send: every id that can be issued, and one that never is
NoSuchId == 0
UserIds == 0..MaxUsers
TweetIds == 0..MaxPosts

\* storage.tweets as a dict: its keys, and storage.tweets[tid]
TweetKeys(S) == {S.tweets[i].id : i \in 1..Len(S.tweets)}
TweetOf(S, tid) == S.tweets[CHOOSE i \in 1..Len(S.tweets) : S.tweets[i].id = tid]

\* a response: the status, the stores the handler leaves
Reply(code, S) == [status |-> code, st |-> S]

\* _build_user_out counting the user's original tweets only
_build_user_out_originals_only(S, user) ==
  LET uid == user.id IN
  [ id              |-> uid,
    username        |-> user.username,
    display_name    |-> user.display_name,
    bio             |-> user.bio,
    followers_count |-> Cardinality(DictGet(S.followers, uid, {})),
    following_count |-> Cardinality(DictGet(S.following, uid, {})),
    tweet_count     |-> Cardinality({i \in 1..Len(S.tweets) :
                                       /\ S.tweets[i].user_id = uid
                                       /\ S.tweets[i].type = "tweet"}),
    created_at      |-> user.created_at ]

\* ----------------------------------------------------------------- views
\* _build_user_out: the three counts are computed from the stores
_build_user_out(S, user) ==
  LET uid == user.id IN
  [ id              |-> uid,
    username        |-> user.username,
    display_name    |-> user.display_name,
    bio             |-> user.bio,
    followers_count |-> Cardinality(DictGet(S.followers, uid, {})),
    following_count |-> Cardinality(DictGet(S.following, uid, {})),
    tweet_count     |-> Cardinality({i \in 1..Len(S.tweets) : S.tweets[i].user_id = uid}),
    created_at      |-> user.created_at ]

\* _count_retweets counting every post that refers to the tweet, quotes included
_count_retweets_any_reference(S, tweet_id) ==
  Cardinality({i \in 1..Len(S.tweets) : S.tweets[i].original_tweet_id = Some(tweet_id)})

\* _count_retweets / _count_quotes
_count_retweets(S, tweet_id) ==
  Cardinality({i \in 1..Len(S.tweets) :
                 /\ S.tweets[i].type = "retweet"
                 /\ S.tweets[i].original_tweet_id = Some(tweet_id)})
_count_quotes(S, tweet_id) ==
  Cardinality({i \in 1..Len(S.tweets) :
                 /\ S.tweets[i].type = "quote"
                 /\ S.tweets[i].original_tweet_id = Some(tweet_id)})

\* the TweetOut of _build_tweet_out, given the value of its original_tweet field
TweetOut(S, tweet, original_tweet_out) ==
  [ id                |-> tweet.id,
    type              |-> tweet.type,
    user_id           |-> tweet.user_id,
    content           |-> tweet.content,
    created_at        |-> tweet.created_at,
    hashtags          |-> tweet.hashtags,
    mentions          |-> tweet.mentions,
    like_count        |-> Cardinality(DictGet(S.likes, tweet.id, {})),
    retweet_count     |-> _count_retweets(S, tweet.id),
    quote_count       |-> _count_quotes(S, tweet.id),
    original_tweet_id |-> tweet.original_tweet_id,
    original_tweet    |-> original_tweet_out,
    author            |-> IF tweet.user_id \in DOMAIN S.users
                          THEN Some(_build_user_out(S, S.users[tweet.user_id]))
                          ELSE None ]

\* _build_tweet_out following orig_id at depth 1 as well: two levels are embedded
_build_tweet_out_two_levels(S, tweet, depth) ==
  LET Live(o) == ~IsNone(o) /\ Val(o) \in TweetKeys(S)
      inner(t) ==
        TweetOut(S, t, IF Live(t.original_tweet_id)
                       THEN Some(TweetOut(S, TweetOf(S, Val(t.original_tweet_id)), None))
                       ELSE None)
      orig_id == tweet.original_tweet_id
      original_tweet_out ==
        IF Live(orig_id) /\ depth = 0
        THEN Some(inner(TweetOf(S, Val(orig_id))))
        ELSE None
  IN TweetOut(S, tweet, original_tweet_out)

\* _build_tweet_out(tweet, depth): the original is looked up at depth 0 only, and
\* built at depth 1, where orig_id is not followed
_build_tweet_out(S, tweet, depth) ==
  LET orig_id == tweet.original_tweet_id
      original_tweet_out ==
        IF ~IsNone(orig_id) /\ depth = 0 /\ Val(orig_id) \in TweetKeys(S)
        THEN Some(TweetOut(S, TweetOf(S, Val(orig_id)), None))
        ELSE None
  IN TweetOut(S, tweet, original_tweet_out)

\* create_user looking the username up as typed instead of lowercased
create_user_as_typed(S, uid, now, username, display_name, bio) ==
  LET name == Strip(username)
      dname == Strip(display_name)
      user == [ id |-> uid, username |-> name, display_name |-> dname,
                bio |-> bio, created_at |-> now ]
  IN
  IF name = <<>> \/ dname = <<>> THEN Reply(422, S)
  ELSE IF name \in DOMAIN S.usernames THEN Reply(409, S)
  ELSE Reply(201, [S EXCEPT !.users = DictSet(@, uid, user),
                            !.usernames = DictSet(@, name, uid),
                            !.followers = DictSet(@, uid, {}),
                            !.following = DictSet(@, uid, {})])

\* -------------------------------------------------------- POST /users
\* UserCreate's validators run before the handler: both names are stripped, a
\* blank one is a 422.  uid is the value uuid4 returns, now the clock's.
create_user(S, uid, now, username, display_name, bio) ==
  LET name == Strip(username)
      dname == Strip(display_name)
      normalized == Lower(name)
      user == [ id |-> uid, username |-> name, display_name |-> dname,
                bio |-> bio, created_at |-> now ]
  IN
  IF name = <<>> \/ dname = <<>> THEN Reply(422, S)
  ELSE IF normalized \in DOMAIN S.usernames THEN Reply(409, S)
  ELSE Reply(201, [S EXCEPT !.users = DictSet(@, uid, user),
                            !.usernames = DictSet(@, normalized, uid),
                            !.followers = DictSet(@, uid, {}),
                            !.following = DictSet(@, uid, {})])

\* update_user replacing the profile: a field left out is reset
update_user_replace(S, user_id, display_name, bio) ==
  IF user_id \notin DOMAIN S.users THEN Reply(404, S)
  ELSE Reply(200, [S EXCEPT
                     !.users[user_id].display_name =
                        IF ~IsNone(display_name) THEN Val(display_name) ELSE @,
                     !.users[user_id].bio = bio])

\* ------------------------------------------------- PUT /users/{user_id}
\* UserUpdate has no validator: a supplied field is stored as sent
update_user(S, user_id, display_name, bio) ==
  IF user_id \notin DOMAIN S.users THEN Reply(404, S)
  ELSE Reply(200, [S EXCEPT
                     !.users[user_id].display_name =
                        IF ~IsNone(display_name) THEN Val(display_name) ELSE @,
                     !.users[user_id].bio = IF ~IsNone(bio) THEN bio ELSE @])

\* follow_user recording the edge in the follower's view only
follow_user_one_view(S, user_id, target_id) ==
  IF user_id \notin DOMAIN S.users THEN Reply(404, S)
  ELSE IF target_id \notin DOMAIN S.users THEN Reply(404, S)
  ELSE IF user_id = target_id THEN Reply(400, S)
  ELSE IF target_id \in S.following[user_id] THEN Reply(409, S)
  ELSE Reply(200, [S EXCEPT !.following[user_id] = @ \cup {target_id}])

\* follow_user without the self-follow check
follow_user_no_self_check(S, user_id, target_id) ==
  IF user_id \notin DOMAIN S.users THEN Reply(404, S)
  ELSE IF target_id \notin DOMAIN S.users THEN Reply(404, S)
  ELSE IF target_id \in S.following[user_id] THEN Reply(409, S)
  ELSE Reply(200, [S EXCEPT !.following[user_id] = @ \cup {target_id},
                            !.followers[target_id] = @ \cup {user_id}])

\* follow_user detecting the duplicate in the followers view of the caller
follow_user_checks_followers(S, user_id, target_id) ==
  IF user_id \notin DOMAIN S.users THEN Reply(404, S)
  ELSE IF target_id \notin DOMAIN S.users THEN Reply(404, S)
  ELSE IF user_id = target_id THEN Reply(400, S)
  ELSE IF target_id \in S.followers[user_id] THEN Reply(409, S)
  ELSE Reply(200, [S EXCEPT !.following[user_id] = @ \cup {target_id},
                            !.followers[target_id] = @ \cup {user_id}])

\* follow_user making the follow mutual: the target follows back as well
follow_user_mutual(S, user_id, target_id) ==
  IF user_id \notin DOMAIN S.users THEN Reply(404, S)
  ELSE IF target_id \notin DOMAIN S.users THEN Reply(404, S)
  ELSE IF user_id = target_id THEN Reply(400, S)
  ELSE LET S1 == [S EXCEPT !.following = SetDefault(@, user_id, {}),
                           !.followers = SetDefault(@, target_id, {})]
       IN IF target_id \in S1.following[user_id] THEN Reply(409, S1)
          ELSE Reply(200, [S1 EXCEPT !.following[user_id] = @ \cup {target_id},
                                     !.followers[target_id] = @ \cup {user_id},
                                     !.following[target_id] = @ \cup {user_id},
                                     !.followers[user_id] = @ \cup {target_id}])

\* ------------------------------------------- POST /users/{user_id}/follow
follow_user(S, user_id, target_id) ==
  IF user_id \notin DOMAIN S.users THEN Reply(404, S)
  ELSE IF target_id \notin DOMAIN S.users THEN Reply(404, S)
  ELSE IF user_id = target_id THEN Reply(400, S)
  ELSE LET S1 == [S EXCEPT !.following = SetDefault(@, user_id, {}),
                           !.followers = SetDefault(@, target_id, {})]
       IN IF target_id \in S1.following[user_id] THEN Reply(409, S1)
          ELSE Reply(200, [S1 EXCEPT !.following[user_id] = @ \cup {target_id},
                                     !.followers[target_id] = @ \cup {user_id}])

\* unfollow_user removing the edge from the follower's view only
unfollow_user_one_view(S, user_id, target_user_id) ==
  IF user_id \notin DOMAIN S.users THEN Reply(404, S)
  ELSE IF target_user_id \notin DOMAIN S.users THEN Reply(404, S)
  ELSE IF target_user_id \notin DictGet(S.following, user_id, {}) THEN Reply(404, S)
  ELSE Reply(200, [S EXCEPT !.following[user_id] = @ \ {target_user_id}])

\* ----------------------------------------- DELETE /users/{user_id}/follow
unfollow_user(S, user_id, target_user_id) ==
  IF user_id \notin DOMAIN S.users THEN Reply(404, S)
  ELSE IF target_user_id \notin DOMAIN S.users THEN Reply(404, S)
  ELSE IF target_user_id \notin DictGet(S.following, user_id, {}) THEN Reply(404, S)
  ELSE Reply(200, [S EXCEPT !.following[user_id] = @ \ {target_user_id},
                            !.followers[target_user_id] = @ \ {user_id}])

\* GET /users/{user_id}/followers and /following: the ids listed (the code skips
\* ids that are not users); <<>> stands for the 404
get_followers(S, user_id) ==
  IF user_id \notin DOMAIN S.users THEN None
  ELSE Some(DictGet(S.followers, user_id, {}) \cap DOMAIN S.users)
get_following(S, user_id) ==
  IF user_id \notin DOMAIN S.users THEN None
  ELSE Some(DictGet(S.following, user_id, {}) \cap DOMAIN S.users)

\* ------------------------------------------------------ the hashtag index
\* the tweet id put at the front of the tag's list instead of its end
IndexOne_front(index, tag, tweet_id) ==
  IF \E i \in 1..Len(index) : index[i].tag = tag
  THEN [i \in 1..Len(index) |->
          IF index[i].tag = tag
          THEN [index[i] EXCEPT !.ids = <<tweet_id>> \o @] ELSE index[i]]
  ELSE Append(index, [tag |-> tag, ids |-> <<tweet_id>>])

\* storage.hashtag_index.setdefault(tag, []).append(tweet_id)
IndexOne(index, tag, tweet_id) ==
  IF \E i \in 1..Len(index) : index[i].tag = tag
  THEN [i \in 1..Len(index) |->
          IF index[i].tag = tag
          THEN [index[i] EXCEPT !.ids = Append(@, tweet_id)] ELSE index[i]]
  ELSE Append(index, [tag |-> tag, ids |-> <<tweet_id>>])

RECURSIVE _index_hashtags(_, _, _)
_index_hashtags(index, tweet_id, hashtags) ==
  IF hashtags = <<>> THEN index
  ELSE _index_hashtags(IndexOne(index, hashtags[1], tweet_id), tweet_id, Tail(hashtags))

\* lst = storage.hashtag_index.get(tag, []); if tweet_id in lst: lst.remove(tweet_id)
DeindexOne(index, tag, tweet_id) ==
  [i \in 1..Len(index) |->
     IF index[i].tag = tag /\ tweet_id \in Range(index[i].ids)
     THEN [index[i] EXCEPT !.ids = RemoveFirst(@, tweet_id)] ELSE index[i]]

RECURSIVE _deindex_hashtags(_, _, _)
_deindex_hashtags(index, tweet_id, hashtags) ==
  IF hashtags = <<>> THEN index
  ELSE _deindex_hashtags(DeindexOne(index, hashtags[1], tweet_id), tweet_id, Tail(hashtags))

\* -------------------------------------------------------- POST /tweets
MaxContentLen == 280

\* create_tweet with both length checks off by one: 281 characters are accepted
create_tweet_limit_281(S, tid, now, user_id, content) ==
  LET hashtags == _extract_hashtags(content)
      tweet == [ id |-> tid, type |-> "tweet", user_id |-> user_id,
                 content |-> Some(content), created_at |-> now,
                 hashtags |-> hashtags,
                 mentions |-> _extract_mentions(content),
                 original_tweet_id |-> None ]
  IN
  IF Len(content) > MaxContentLen + 1 THEN Reply(422, S)
  ELSE IF user_id \notin DOMAIN S.users THEN Reply(404, S)
  ELSE IF Len(content) > MaxContentLen + 1 THEN Reply(400, S)
  ELSE Reply(201, [S EXCEPT !.tweets = Append(@, tweet),
                            !.likes = DictSet(@, tid, {}),
                            !.hashtag_index = _index_hashtags(@, tid, hashtags)])

\* TweetCreate.content_max_length runs before the handler
create_tweet(S, tid, now, user_id, content) ==
  LET hashtags == _extract_hashtags(content)
      tweet == [ id |-> tid, type |-> "tweet", user_id |-> user_id,
                 content |-> Some(content), created_at |-> now,
                 hashtags |-> hashtags,
                 mentions |-> _extract_mentions(content),
                 original_tweet_id |-> None ]
  IN
  IF Len(content) > MaxContentLen THEN Reply(422, S)
  ELSE IF user_id \notin DOMAIN S.users THEN Reply(404, S)
  ELSE IF Len(content) > MaxContentLen THEN Reply(400, S)
  ELSE Reply(201, [S EXCEPT !.tweets = Append(@, tweet),
                            !.likes = DictSet(@, tid, {}),
                            !.hashtag_index = _index_hashtags(@, tid, hashtags)])

\* create_retweet without the check that the acting user exists
create_retweet_no_user_check(S, tid, now, tweet_id, user_id) ==
  LET retweet == [ id |-> tid, type |-> "retweet", user_id |-> user_id,
                   content |-> None, created_at |-> now,
                   hashtags |-> <<>>, mentions |-> <<>>,
                   original_tweet_id |-> Some(tweet_id) ]
  IN
  IF tweet_id \notin TweetKeys(S) THEN Reply(404, S)
  ELSE Reply(201, [S EXCEPT !.tweets = Append(@, retweet),
                            !.likes = DictSet(@, tid, {})])

\* create_retweet copying the hashtags and mentions of the retweeted post and
\* indexing them
create_retweet_copies_tags(S, tid, now, tweet_id, user_id) ==
  IF tweet_id \notin TweetKeys(S) THEN Reply(404, S)
  ELSE IF user_id \notin DOMAIN S.users THEN Reply(404, S)
  ELSE LET retweet == [ id |-> tid, type |-> "retweet", user_id |-> user_id,
                        content |-> None, created_at |-> now,
                        hashtags |-> TweetOf(S, tweet_id).hashtags,
                        mentions |-> TweetOf(S, tweet_id).mentions,
                        original_tweet_id |-> Some(tweet_id) ]
       IN Reply(201, [S EXCEPT !.tweets = Append(@, retweet),
                               !.likes = DictSet(@, tid, {}),
                               !.hashtag_index =
                                  _index_hashtags(@, tid, retweet.hashtags)])

\* create_retweet without the check that the retweeted post exists
create_retweet_no_tweet_check(S, tid, now, tweet_id, user_id) ==
  LET retweet == [ id |-> tid, type |-> "retweet", user_id |-> user_id,
                   content |-> None, created_at |-> now,
                   hashtags |-> <<>>, mentions |-> <<>>,
                   original_tweet_id |-> Some(tweet_id) ]
  IN
  IF user_id \notin DOMAIN S.users THEN Reply(404, S)
  ELSE Reply(201, [S EXCEPT !.tweets = Append(@, retweet),
                            !.likes = DictSet(@, tid, {})])

\* -------------------------------------------- POST /tweets/{tweet_id}/retweet
create_retweet(S, tid, now, tweet_id, user_id) ==
  LET retweet == [ id |-> tid, type |-> "retweet", user_id |-> user_id,
                   content |-> None, created_at |-> now,
                   hashtags |-> <<>>, mentions |-> <<>>,
                   original_tweet_id |-> Some(tweet_id) ]
  IN
  IF tweet_id \notin TweetKeys(S) THEN Reply(404, S)
  ELSE IF user_id \notin DOMAIN S.users THEN Reply(404, S)
  ELSE Reply(201, [S EXCEPT !.tweets = Append(@, retweet),
                            !.likes = DictSet(@, tid, {})])

\* create_quote_tweet storing the post before it validates the user
create_quote_tweet_store_first(S, tid, now, tweet_id, user_id, content) ==
  LET hashtags == _extract_hashtags(content)
      quote_tweet == [ id |-> tid, type |-> "quote", user_id |-> user_id,
                       content |-> Some(content), created_at |-> now,
                       hashtags |-> hashtags,
                       mentions |-> _extract_mentions(content),
                       original_tweet_id |-> Some(tweet_id) ]
      S1 == [S EXCEPT !.tweets = Append(@, quote_tweet),
                      !.likes = DictSet(@, tid, {}),
                      !.hashtag_index = _index_hashtags(@, tid, hashtags)]
  IN
  IF Len(content) > MaxContentLen THEN Reply(422, S)
  ELSE IF tweet_id \notin TweetKeys(S) THEN Reply(404, S)
  ELSE IF user_id \notin DOMAIN S.users THEN Reply(404, S1)
  ELSE Reply(201, S1)

\* ---------------------------------------------- POST /tweets/{tweet_id}/quote
\* QuoteTweetCreate.content_max_length runs before the handler
create_quote_tweet(S, tid, now, tweet_id, user_id, content) ==
  LET hashtags == _extract_hashtags(content)
      quote_tweet == [ id |-> tid, type |-> "quote", user_id |-> user_id,
                       content |-> Some(content), created_at |-> now,
                       hashtags |-> hashtags,
                       mentions |-> _extract_mentions(content),
                       original_tweet_id |-> Some(tweet_id) ]
  IN
  IF Len(content) > MaxContentLen THEN Reply(422, S)
  ELSE IF tweet_id \notin TweetKeys(S) THEN Reply(404, S)
  ELSE IF user_id \notin DOMAIN S.users THEN Reply(404, S)
  ELSE IF Len(content) > MaxContentLen THEN Reply(400, S)
  ELSE Reply(201, [S EXCEPT !.tweets = Append(@, quote_tweet),
                            !.likes = DictSet(@, tid, {}),
                            !.hashtag_index = _index_hashtags(@, tid, hashtags)])

\* delete_tweet leaving the post's id in the hashtag index
delete_tweet_keeps_index(S, tweet_id) ==
  IF tweet_id \notin TweetKeys(S) THEN Reply(404, S)
  ELSE Reply(204, [S EXCEPT
                     !.likes = DictPop(@, tweet_id),
                     !.tweets = SelectSeq(@, LAMBDA t : t.id # tweet_id)])

\* delete_tweet deleting the retweets and quotes of the post with it
delete_tweet_cascade(S, tweet_id) ==
  IF tweet_id \notin TweetKeys(S) THEN Reply(404, S)
  ELSE Reply(204, [S EXCEPT
                     !.hashtag_index =
                        _deindex_hashtags(@, tweet_id, TweetOf(S, tweet_id).hashtags),
                     !.likes = DictPop(@, tweet_id),
                     !.tweets = SelectSeq(@, LAMBDA t :
                                   /\ t.id # tweet_id
                                   /\ t.original_tweet_id # Some(tweet_id))])

\* delete_tweet leaving the post's like set in storage.likes
delete_tweet_keeps_likes(S, tweet_id) ==
  IF tweet_id \notin TweetKeys(S) THEN Reply(404, S)
  ELSE Reply(204, [S EXCEPT
                     !.hashtag_index =
                        _deindex_hashtags(@, tweet_id, TweetOf(S, tweet_id).hashtags),
                     !.tweets = SelectSeq(@, LAMBDA t : t.id # tweet_id)])

\* ------------------------------------------------ DELETE /tweets/{tweet_id}
delete_tweet(S, tweet_id) ==
  IF tweet_id \notin TweetKeys(S) THEN Reply(404, S)
  ELSE Reply(204, [S EXCEPT
                     !.hashtag_index =
                        _deindex_hashtags(@, tweet_id, TweetOf(S, tweet_id).hashtags),
                     !.likes = DictPop(@, tweet_id),
                     !.tweets = SelectSeq(@, LAMBDA t : t.id # tweet_id)])

\* get_tweet answering 404 for a retweet or quote whose original is gone
get_tweet_needs_original(S, tweet_id) ==
  IF tweet_id \notin TweetKeys(S) THEN None
  ELSE LET orig_id == TweetOf(S, tweet_id).original_tweet_id IN
       IF ~IsNone(orig_id) /\ Val(orig_id) \notin TweetKeys(S) THEN None
       ELSE Some(_build_tweet_out(S, TweetOf(S, tweet_id), 0))

\* GET /tweets/{tweet_id}: the view, or <<>> for the 404
get_tweet(S, tweet_id) ==
  IF tweet_id \notin TweetKeys(S) THEN None
  ELSE Some(_build_tweet_out(S, TweetOf(S, tweet_id), 0))

\* GET /users/{user_id}: the view, or <<>> for the 404
get_user(S, user_id) ==
  IF user_id \notin DOMAIN S.users THEN None
  ELSE Some(_build_user_out(S, S.users[user_id]))

\* like_tweet returning the count it read before adding the user
like_tweet_stale_count(S, tweet_id, user_id) ==
  IF tweet_id \notin TweetKeys(S) THEN Reply(404, S)
  ELSE LET likers == DictGet(S.likes, tweet_id, {})
       IN IF user_id \in likers THEN Reply(409, S)
          ELSE [ status |-> 200,
                 st |-> [S EXCEPT !.likes = DictSet(@, tweet_id, likers \cup {user_id})],
                 like_count |-> Cardinality(likers) ]

\* like_tweet without the double-like check
like_tweet_no_double_check(S, tweet_id, user_id) ==
  IF tweet_id \notin TweetKeys(S) THEN Reply(404, S)
  ELSE LET likers == DictGet(S.likes, tweet_id, {})
       IN [ status |-> 200,
            st |-> [S EXCEPT !.likes = DictSet(@, tweet_id, likers \cup {user_id})],
            like_count |-> Cardinality(likers \cup {user_id}) ]

\* like_tweet calling setdefault before it looks the tweet up
like_tweet_setdefault_first(S, tweet_id, user_id) ==
  LET S1 == [S EXCEPT !.likes = SetDefault(@, tweet_id, {})]
      likers == S1.likes[tweet_id]
  IN IF tweet_id \notin TweetKeys(S) THEN Reply(404, S1)
     ELSE IF user_id \in likers THEN Reply(409, S1)
     ELSE [ status |-> 200,
            st |-> [S1 EXCEPT !.likes[tweet_id] = likers \cup {user_id}],
            like_count |-> Cardinality(likers \cup {user_id}) ]

\* like_tweet answering 404 when the liking user is not stored
like_tweet_needs_user(S, tweet_id, user_id) ==
  IF tweet_id \notin TweetKeys(S) THEN Reply(404, S)
  ELSE IF user_id \notin DOMAIN S.users THEN Reply(404, S)
  ELSE LET S1 == [S EXCEPT !.likes = SetDefault(@, tweet_id, {})]
           likers == S1.likes[tweet_id]
       IN IF user_id \in likers THEN Reply(409, S1)
          ELSE [ status |-> 200,
                 st |-> [S1 EXCEPT !.likes[tweet_id] = likers \cup {user_id}],
                 like_count |-> Cardinality(likers \cup {user_id}) ]

\* ----------------------------------------------- POST /tweets/{tweet_id}/like
\* the response carries like_count = len(likers)
like_tweet(S, tweet_id, user_id) ==
  IF tweet_id \notin TweetKeys(S) THEN Reply(404, S)
  ELSE LET S1 == [S EXCEPT !.likes = SetDefault(@, tweet_id, {})]
           likers == S1.likes[tweet_id]
       IN IF user_id \in likers THEN Reply(409, S1)
          ELSE [ status |-> 200,
                 st |-> [S1 EXCEPT !.likes[tweet_id] = likers \cup {user_id}],
                 like_count |-> Cardinality(likers \cup {user_id}) ]

\* unlike_tweet emptying the post's like set instead of discarding one user
unlike_tweet_clears(S, tweet_id, user_id) ==
  LET likers == DictGet(S.likes, tweet_id, {}) IN
  IF tweet_id \notin TweetKeys(S) THEN Reply(404, S)
  ELSE IF user_id \notin likers THEN Reply(404, S)
  ELSE [ status |-> 200,
         st |-> [S EXCEPT !.likes[tweet_id] = {}],
         like_count |-> 0 ]

\* --------------------------------------------- DELETE /tweets/{tweet_id}/like
unlike_tweet(S, tweet_id, user_id) ==
  LET likers == DictGet(S.likes, tweet_id, {}) IN
  IF tweet_id \notin TweetKeys(S) THEN Reply(404, S)
  ELSE IF user_id \notin likers THEN Reply(404, S)
  ELSE [ status |-> 200,
         st |-> [S EXCEPT !.likes[tweet_id] = likers \ {user_id}],
         like_count |-> Cardinality(likers \ {user_id}) ]

\* ------------------------------------------------------------- the feeds
\* list.sort(key=lambda t: t["created_at"], reverse=True): the sort is stable, and
\* with reverse=True posts of equal created_at keep the order they had in the list
RECURSIVE SortNewestFirst(_)
SortNewestFirst(ts) ==
  IF ts = <<>> THEN <<>>
  ELSE LET front == SortNewestFirst(SubSeq(ts, 1, Len(ts) - 1))
           last == ts[Len(ts)]
           k == Cardinality({i \in 1..Len(front) : front[i].created_at >= last.created_at})
       IN SubSeq(front, 1, k) \o <<last>> \o SubSeq(front, k + 1, Len(front))

\* [_build_tweet_out(t) for t in ts]
BuildAll(S, ts) == [i \in 1..Len(ts) |-> _build_tweet_out(S, ts[i], 0)]

\* get_timeline listing the original tweets of the followed users only
get_timeline_originals_only(S, user_id) ==
  IF user_id \notin DOMAIN S.users THEN None
  ELSE LET followed_ids == DictGet(S.following, user_id, {})
           feed_tweets == SelectSeq(S.tweets, LAMBDA t : /\ t.user_id \in followed_ids
                                                         /\ t.type = "tweet")
       IN IF followed_ids = {} THEN Some(<<>>)
          ELSE Some(BuildAll(S, SortNewestFirst(feed_tweets)))

\* get_timeline listing the user's own posts with those of the followed users
get_timeline_with_own(S, user_id) ==
  IF user_id \notin DOMAIN S.users THEN None
  ELSE LET followed_ids == DictGet(S.following, user_id, {})
           feed_tweets == SelectSeq(S.tweets, LAMBDA t : t.user_id \in followed_ids \cup {user_id})
       IN IF followed_ids = {} THEN Some(<<>>)
          ELSE Some(BuildAll(S, SortNewestFirst(feed_tweets)))

\* GET /users/{user_id}/timeline: the list, or <<>> for the 404
get_timeline(S, user_id) ==
  IF user_id \notin DOMAIN S.users THEN None
  ELSE LET followed_ids == DictGet(S.following, user_id, {})
           feed_tweets == SelectSeq(S.tweets, LAMBDA t : t.user_id \in followed_ids)
       IN IF followed_ids = {} THEN Some(<<>>)
          ELSE Some(BuildAll(S, SortNewestFirst(feed_tweets)))

\* GET /users/{user_id}/tweets: the list, or <<>> for the 404
get_user_tweets(S, user_id) ==
  IF user_id \notin DOMAIN S.users THEN None
  ELSE LET user_tweets == SelectSeq(S.tweets, LAMBDA t : t.user_id = user_id)
       IN Some(BuildAll(S, SortNewestFirst(user_tweets)))

\* get_mentions comparing each mention with the username as typed
get_mentions_as_typed(S, user_id) ==
  IF user_id \notin DOMAIN S.users THEN None
  ELSE LET username == S.users[user_id].username
           mentioned_tweets ==
             SelectSeq(S.tweets,
                       LAMBDA t : \E i \in 1..Len(t.mentions) : t.mentions[i] = username)
       IN Some(BuildAll(S, SortNewestFirst(mentioned_tweets)))

\* GET /users/{user_id}/mentions: the list, or <<>> for the 404
get_mentions(S, user_id) ==
  IF user_id \notin DOMAIN S.users THEN None
  ELSE LET username_lower == Lower(S.users[user_id].username)
           mentioned_tweets ==
             SelectSeq(S.tweets,
                       LAMBDA t : \E i \in 1..Len(t.mentions) :
                                    Lower(t.mentions[i]) = username_lower)
       IN Some(BuildAll(S, SortNewestFirst(mentioned_tweets)))

\* storage.hashtag_index.get(tag, [])
IndexGet(index, tag) ==
  IF \E i \in 1..Len(index) : index[i].tag = tag
  THEN index[CHOOSE i \in 1..Len(index) : index[i].tag = tag].ids
  ELSE <<>>

\* get_tweets_by_hashtag looking the tag up as typed
get_tweets_by_hashtag_as_typed(S, tag) ==
  LET tweet_ids == IndexGet(S.hashtag_index, tag)
      live_ids == SelectSeq(tweet_ids, LAMBDA tid : tid \in TweetKeys(S))
      result == [i \in 1..Len(live_ids) |-> TweetOf(S, live_ids[i])]
  IN BuildAll(S, SortNewestFirst(result))

\* GET /hashtags/{tag}/tweets: always a list
get_tweets_by_hashtag(S, tag) ==
  LET tag_lower == Lower(tag)
      tweet_ids == IndexGet(S.hashtag_index, tag_lower)
      live_ids == SelectSeq(tweet_ids, LAMBDA tid : tid \in TweetKeys(S))
      result == [i \in 1..Len(live_ids) |-> TweetOf(S, live_ids[i])]
  IN BuildAll(S, SortNewestFirst(result))

\* sorted(counts.items(), key=lambda x: x[1], reverse=True): stable as well
RECURSIVE SortByCount(_)
SortByCount(items) ==
  IF items = <<>> THEN <<>>
  ELSE LET front == SortByCount(SubSeq(items, 1, Len(items) - 1))
           last == items[Len(items)]
           k == Cardinality({i \in 1..Len(front) : front[i].count >= last.count})
       IN SubSeq(front, 1, k) \o <<last>> \o SubSeq(front, k + 1, Len(front))

\* the [:10] of get_trending
TrendingLimit == 10

\* get_trending listing every indexed tag, a tag without live posts with count 0
get_trending_keeps_zero(S) ==
  LET live_count(ids) == Cardinality({j \in 1..Len(ids) : ids[j] \in TweetKeys(S)})
      counts == [i \in 1..Len(S.hashtag_index) |->
                   [hashtag |-> S.hashtag_index[i].tag,
                    count |-> live_count(S.hashtag_index[i].ids)]]
      ranked == SortByCount(counts)
  IN SubSeq(ranked, 1, IF Len(ranked) < TrendingLimit THEN Len(ranked) ELSE TrendingLimit)

\* get_trending truncating the counts in the order of the index, without sorting
get_trending_unsorted(S) ==
  LET live_count(ids) == Cardinality({j \in 1..Len(ids) : ids[j] \in TweetKeys(S)})
      counted == [i \in 1..Len(S.hashtag_index) |->
                    [hashtag |-> S.hashtag_index[i].tag,
                     count |-> live_count(S.hashtag_index[i].ids)]]
      counts == SelectSeq(counted, LAMBDA c : c.count > 0)
  IN SubSeq(counts, 1, IF Len(counts) < TrendingLimit THEN Len(counts) ELSE TrendingLimit)

\* GET /trending
get_trending(S) ==
  LET live_count(ids) == Cardinality({j \in 1..Len(ids) : ids[j] \in TweetKeys(S)})
      counted == [i \in 1..Len(S.hashtag_index) |->
                    [hashtag |-> S.hashtag_index[i].tag,
                     count |-> live_count(S.hashtag_index[i].ids)]]
      counts == SelectSeq(counted, LAMBDA c : c.count > 0)
      ranked == SortByCount(counts)
  IN SubSeq(ranked, 1, IF Len(ranked) < TrendingLimit THEN Len(ranked) ELSE TrendingLimit)

\* ------------------------------------------------------------ initially
\* the worker threads that run the handlers (the endpoints are plain `def`
\* functions); a thread that serves no request is idle
ThreadIds == 1..MaxThreads
Idle == [op |-> "idle"]

Init ==
  /\ users = EmptyStore.users
  /\ usernames = EmptyStore.usernames
  /\ tweets = EmptyStore.tweets
  /\ followers = EmptyStore.followers
  /\ following = EmptyStore.following
  /\ likes = EmptyStore.likes
  /\ hashtag_index = EmptyStore.hashtag_index
  /\ uuid_tweets = 0
  /\ clock = 0
  /\ twin = [st |-> EmptyStore, uuid_tweets |-> 0]
  /\ threads = [th \in ThreadIds |-> Idle]

\* the handler's stores become the stores
Install(S) ==
  /\ users' = S.users
  /\ usernames' = S.usernames
  /\ tweets' = S.tweets
  /\ followers' = S.followers
  /\ following' = S.following
  /\ likes' = S.likes
  /\ hashtag_index' = S.hashtag_index

\* ---------------------------------------------------------------- inputs
Usernames == {<<"a">>, <<"A">>, <<"b">>, <<" ">>}
DisplayNames == {<<"A">>, <<" ">>}
Bios == {None}
UpdateDisplayNames == {None, Some(<<"B">>)}
UpdateBios == {None}
Contents == {<<"#", "T", "@", "A", "#", "t">>, Repeat("x", MaxContentLen + 1)}

\* the tags GET /hashtags/{tag}/tweets is asked for
QueryTags ==
  {<<"t">>, <<"T">>, <<"b">>, <<"B">>, <<"a">>, <<"A">>, <<"a", "t">>, <<"A", "T">>, <<"c", "c">>}

\* the id uuid4 returns to create_user: users are never removed
NewUserId == Cardinality(DOMAIN users) + 1
\* ids numbered by the posts in storage.tweets: the id of a deleted post is
\* handed out again
NewTweetId_live_count == Len(tweets) + 1
\* the id uuid4 returns to the handlers that store a post
NewTweetId == uuid_tweets + 1

\* ---------------------------------------------------------------- actions
CreateUser ==
  \E n \in Usernames, d \in DisplayNames, b \in Bios :
    LET r == create_user(store, NewUserId, clock, n, d, b) IN
    /\ r.status = 201 => NewUserId <= MaxUsers
    /\ Install(r.st)
    /\ UNCHANGED <<uuid_tweets, clock, twin, threads>>

UpdateUser ==
  \E u \in UserIds, d \in UpdateDisplayNames, b \in UpdateBios :
    /\ Install(update_user(store, u, d, b).st)
    /\ UNCHANGED <<uuid_tweets, clock, twin, threads>>

FollowUser ==
  \E a \in UserIds, b \in UserIds :
    /\ Install(follow_user(store, a, b).st)
    /\ UNCHANGED <<uuid_tweets, clock, twin, threads>>

UnfollowUser ==
  \E a \in UserIds, b \in UserIds :
    /\ Install(unfollow_user(store, a, b).st)
    /\ UNCHANGED <<uuid_tweets, clock, twin, threads>>

\* a handler that stored a post has drawn one id
CreateTweet ==
  \E u \in UserIds, c \in Contents :
    LET r == create_tweet(store, NewTweetId, clock, u, c) IN
    /\ r.status = 201 => NewTweetId <= MaxPosts
    /\ Install(r.st)
    /\ uuid_tweets' = IF r.status = 201 THEN uuid_tweets + 1 ELSE uuid_tweets
    /\ UNCHANGED <<clock, twin, threads>>

CreateRetweet ==
  \E t \in TweetIds, u \in UserIds :
    LET r == create_retweet(store, NewTweetId, clock, t, u) IN
    /\ r.status = 201 => NewTweetId <= MaxPosts
    /\ Install(r.st)
    /\ uuid_tweets' = IF r.status = 201 THEN uuid_tweets + 1 ELSE uuid_tweets
    /\ UNCHANGED <<clock, twin, threads>>

CreateQuoteTweet ==
  \E t \in TweetIds, u \in UserIds, c \in Contents :
    LET r == create_quote_tweet(store, NewTweetId, clock, t, u, c) IN
    /\ r.status = 201 => NewTweetId <= MaxPosts
    /\ Install(r.st)
    /\ uuid_tweets' = IF r.status = 201 THEN uuid_tweets + 1 ELSE uuid_tweets
    /\ UNCHANGED <<clock, twin, threads>>

DeleteTweet ==
  \E t \in TweetIds :
    /\ Install(delete_tweet(store, t).st)
    /\ UNCHANGED <<uuid_tweets, clock, twin, threads>>

LikeTweet ==
  \E t \in TweetIds, u \in UserIds :
    /\ Install(like_tweet(store, t, u).st)
    /\ UNCHANGED <<uuid_tweets, clock, twin, threads>>

UnlikeTweet ==
  \E t \in TweetIds, u \in UserIds :
    /\ Install(unlike_tweet(store, t, u).st)
    /\ UNCHANGED <<uuid_tweets, clock, twin, threads>>

\* the wall clock advances between two requests
Tick ==
  /\ clock < MaxClock
  /\ clock' = clock + 1
  /\ UNCHANGED <<users, usernames, tweets, followers, following, likes, hashtag_index,
                 uuid_tweets, twin, threads>>

Next ==
  \/ CreateUser
  \/ UpdateUser
  \/ FollowUser
  \/ UnfollowUser
  \/ CreateTweet
  \/ CreateRetweet
  \/ CreateQuoteTweet
  \/ DeleteTweet
  \/ LikeTweet
  \/ UnlikeTweet

\* every request, served one at a time, within one reading of the clock
Spec == Init /\ [][Next]_vars

\* the requests that decide what the feeds list, with the clock advancing
NextClock ==
  \/ Tick
  \/ CreateUser
  \/ FollowUser
  \/ UnfollowUser
  \/ CreateTweet
  \/ CreateRetweet
  \/ CreateQuoteTweet
  \/ DeleteTweet

SpecClock == Init /\ [][NextClock]_vars

\* ------------------------------------------------- posts with many hashtags
\* a post with eleven hashtags, one more than GET /trending lists
ElevenTags ==
  <<"#", "a", "#", "b", "#", "c", "#", "t", "#", "x", "#", "1", "#", "_",
    "#", "a", "a", "#", "a", "b", "#", "a", "c", "#", "a", "t">>
TagContents == {<<"#", "b", "#", "a">>, <<"#", "A">>, <<"#", "a", "t">>, ElevenTags}

CreateTaggedTweet ==
  \E u \in UserIds, c \in TagContents :
    LET r == create_tweet(store, NewTweetId, clock, u, c) IN
    /\ r.status = 201 => NewTweetId <= MaxPosts
    /\ Install(r.st)
    /\ uuid_tweets' = IF r.status = 201 THEN uuid_tweets + 1 ELSE uuid_tweets
    /\ UNCHANGED <<clock, twin, threads>>

CreateTaggedQuote ==
  \E t \in TweetIds, u \in UserIds, c \in TagContents :
    LET r == create_quote_tweet(store, NewTweetId, clock, t, u, c) IN
    /\ r.status = 201 => NewTweetId <= MaxPosts
    /\ Install(r.st)
    /\ uuid_tweets' = IF r.status = 201 THEN uuid_tweets + 1 ELSE uuid_tweets
    /\ UNCHANGED <<clock, twin, threads>>

NextTags ==
  \/ CreateUser
  \/ CreateTaggedTweet
  \/ CreateTaggedQuote
  \/ CreateRetweet
  \/ DeleteTweet

\* the requests that decide what the hashtag index holds
SpecTags == Init /\ [][NextTags]_vars

\* ------------------------------------------------ posts at the length limit
\* bodies of 0, 280 and 281 characters
BodyContents == {<<>>, Repeat("x", MaxContentLen), Repeat("x", MaxContentLen + 1)}

CreateBodyTweet ==
  \E u \in UserIds, c \in BodyContents :
    LET r == create_tweet(store, NewTweetId, clock, u, c) IN
    /\ r.status = 201 => NewTweetId <= MaxPosts
    /\ Install(r.st)
    /\ uuid_tweets' = IF r.status = 201 THEN uuid_tweets + 1 ELSE uuid_tweets
    /\ UNCHANGED <<clock, twin, threads>>

CreateBodyQuote ==
  \E t \in TweetIds, u \in UserIds, c \in BodyContents :
    LET r == create_quote_tweet(store, NewTweetId, clock, t, u, c) IN
    /\ r.status = 201 => NewTweetId <= MaxPosts
    /\ Install(r.st)
    /\ uuid_tweets' = IF r.status = 201 THEN uuid_tweets + 1 ELSE uuid_tweets
    /\ UNCHANGED <<clock, twin, threads>>

NextBody ==
  \/ CreateUser
  \/ CreateBodyTweet
  \/ CreateBodyQuote
  \/ CreateRetweet
  \/ DeleteTweet

\* the requests that store and remove posts, with bodies around the limit
SpecBody == Init /\ [][NextBody]_vars

\* ----------------------------------------------- chains of retweets and quotes
\* up to MaxChain posts, so that a quote of a retweet of a quote can be stored
ChainIds == 0..MaxChain
ChainContent == <<"@", "A">>

ChainTweet ==
  \E u \in UserIds :
    LET r == create_tweet(store, NewTweetId, clock, u, ChainContent) IN
    /\ r.status = 201 => NewTweetId <= MaxChain
    /\ Install(r.st)
    /\ uuid_tweets' = IF r.status = 201 THEN uuid_tweets + 1 ELSE uuid_tweets
    /\ UNCHANGED <<clock, twin, threads>>

ChainRetweet ==
  \E t \in ChainIds, u \in UserIds :
    LET r == create_retweet(store, NewTweetId, clock, t, u) IN
    /\ r.status = 201 => NewTweetId <= MaxChain
    /\ Install(r.st)
    /\ uuid_tweets' = IF r.status = 201 THEN uuid_tweets + 1 ELSE uuid_tweets
    /\ UNCHANGED <<clock, twin, threads>>

ChainQuote ==
  \E t \in ChainIds, u \in UserIds :
    LET r == create_quote_tweet(store, NewTweetId, clock, t, u, ChainContent) IN
    /\ r.status = 201 => NewTweetId <= MaxChain
    /\ Install(r.st)
    /\ uuid_tweets' = IF r.status = 201 THEN uuid_tweets + 1 ELSE uuid_tweets
    /\ UNCHANGED <<clock, twin, threads>>

ChainDelete ==
  \E t \in ChainIds :
    /\ Install(delete_tweet(store, t).st)
    /\ UNCHANGED <<uuid_tweets, clock, twin, threads>>

NextChain ==
  \/ CreateUser
  \/ ChainTweet
  \/ ChainRetweet
  \/ ChainQuote
  \/ ChainDelete

\* the requests that build and break chains of references
SpecChain == Init /\ [][NextChain]_vars

\* ------------------------------------------------------ profile updates
\* the display_name and bio fields of a PUT /users/{user_id} body: left out, a
\* text, a blank text, the empty text
ProfileDisplayNames == {None, Some(<<"B">>), Some(<<" ">>), Some(<<>>)}
ProfileBios == {None, Some(<<"b">>)}

UpdateProfile ==
  \E u \in UserIds, d \in ProfileDisplayNames, b \in ProfileBios :
    /\ Install(update_user(store, u, d, b).st)
    /\ UNCHANGED <<uuid_tweets, clock, twin, threads>>

NextProfile ==
  \/ CreateUser
  \/ UpdateProfile
  \/ FollowUser
  \/ CreateTweet

\* the requests that write users, with a follow graph and posts to preserve
SpecProfile == Init /\ [][NextProfile]_vars

\* ------------------------------------------- handlers run by worker threads
\* The endpoints are plain `def` functions: the server runs each request on a
\* worker thread, and storage.py has no lock. A thread runs one statement of
\* its handler at a time; `pc` is the line of the statement it runs next, and
\* the other fields are the handler's arguments and locals.

\* the thread moves to the statement at line pc
Goto(th, pc) == threads' = [threads EXCEPT ![th] = [@ EXCEPT !.pc = pc]]
\* the handler returns or raises: the thread is free again
Return(th) == threads' = [threads EXCEPT ![th] = Idle]

StepUsernames == {<<"a">>, <<"b">>}
StepDisplayName == <<"A">>
StepContents == {<<"#", "a", "#", "b">>}

\* POST /users, served whole
CreateStepUser ==
  \E n \in StepUsernames :
    LET r == create_user(store, NewUserId, clock, n, StepDisplayName, None) IN
    /\ r.status = 201
    /\ NewUserId <= MaxUsers
    /\ Install(r.st)
    /\ UNCHANGED <<uuid_tweets, clock, twin, threads>>

\* a request for POST /users/{user_id}/follow arrives at a free thread
FollowUserCall ==
  \E th \in ThreadIds, a \in UserIds, b \in UserIds :
    /\ threads[th] = Idle
    /\ threads' = [threads EXCEPT ![th] =
                     [op |-> "follow_user", pc |-> 60, user_id |-> a, target_id |-> b]]
    /\ UNCHANGED <<users, usernames, tweets, followers, following, likes,
                   hashtag_index, uuid_tweets, clock, twin>>

\* one statement of follow_user
FollowUserStep ==
  \E th \in ThreadIds :
    LET f == threads[th] IN
    /\ f.op = "follow_user"
    /\ \/ /\ f.pc = 60
          /\ IF f.user_id \in DOMAIN users THEN Goto(th, 62) ELSE Return(th)
          /\ Install(store)
       \/ /\ f.pc = 62
          /\ IF f.target_id \in DOMAIN users THEN Goto(th, 64) ELSE Return(th)
          /\ Install(store)
       \/ /\ f.pc = 64
          /\ IF f.user_id = f.target_id THEN Return(th) ELSE Goto(th, 68)
          /\ Install(store)
       \/ /\ f.pc = 68
          /\ Install([store EXCEPT !.following = SetDefault(@, f.user_id, {})])
          /\ Goto(th, 69)
       \/ /\ f.pc = 69
          /\ Install([store EXCEPT !.followers = SetDefault(@, f.target_id, {})])
          /\ Goto(th, 71)
       \/ /\ f.pc = 71
          /\ IF f.target_id \in following[f.user_id] THEN Return(th) ELSE Goto(th, 77)
          /\ Install(store)
       \/ /\ f.pc = 77
          /\ Install([store EXCEPT !.following[f.user_id] = @ \cup {f.target_id}])
          /\ Goto(th, 78)
       \/ /\ f.pc = 78
          /\ Install([store EXCEPT !.followers[f.target_id] = @ \cup {f.user_id}])
          /\ Return(th)
    /\ UNCHANGED <<uuid_tweets, clock, twin>>

\* a request for DELETE /users/{user_id}/follow arrives at a free thread
UnfollowUserCall ==
  \E th \in ThreadIds, a \in UserIds, b \in UserIds :
    /\ threads[th] = Idle
    /\ threads' = [threads EXCEPT ![th] =
                     [op |-> "unfollow_user", pc |-> 96, user_id |-> a,
                      target_user_id |-> b]]
    /\ UNCHANGED <<users, usernames, tweets, followers, following, likes,
                   hashtag_index, uuid_tweets, clock, twin>>

\* one statement of unfollow_user
UnfollowUserStep ==
  \E th \in ThreadIds :
    LET f == threads[th] IN
    /\ f.op = "unfollow_user"
    /\ \/ /\ f.pc = 96
          /\ IF f.user_id \in DOMAIN users THEN Goto(th, 97) ELSE Return(th)
          /\ Install(store)
       \/ /\ f.pc = 97
          /\ IF f.target_user_id \in DOMAIN users THEN Goto(th, 99) ELSE Return(th)
          /\ Install(store)
       \/ /\ f.pc = 99
          /\ IF f.target_user_id \notin DictGet(following, f.user_id, {})
             THEN Return(th) ELSE Goto(th, 105)
          /\ Install(store)
       \/ /\ f.pc = 105
          /\ Install([store EXCEPT !.following[f.user_id] = @ \ {f.target_user_id}])
          /\ Goto(th, 106)
       \/ /\ f.pc = 106
          /\ Install([store EXCEPT !.followers[f.target_user_id] = @ \ {f.user_id}])
          /\ Return(th)
    /\ UNCHANGED <<uuid_tweets, clock, twin>>

\* the threads that run create_tweet and have not called uuid4 yet
Drawing ==
  {th \in ThreadIds : threads[th].op = "create_tweet" /\ threads[th].pc \in {142, 146, 149}}

\* a request for POST /tweets arrives at a free thread; TweetCreate has
\* accepted the body
CreateTweetCall ==
  \E th \in ThreadIds, u \in UserIds, c \in StepContents :
    /\ threads[th] = Idle
    /\ Len(c) <= MaxContentLen
    /\ uuid_tweets + Cardinality(Drawing) < MaxPosts
    /\ threads' = [threads EXCEPT ![th] =
                     [op |-> "create_tweet", pc |-> 142, user_id |-> u, content |-> c]]
    /\ UNCHANGED <<users, usernames, tweets, followers, following, likes,
                   hashtag_index, uuid_tweets, clock, twin>>

\* one statement of create_tweet; lines 149 to 163, which only fill locals,
\* are one step, and each round of the loop of _index_hashtags is one
CreateTweetStep ==
  \E th \in ThreadIds :
    LET f == threads[th] IN
    /\ f.op = "create_tweet"
    /\ \/ /\ f.pc = 142
          /\ IF f.user_id \notin DOMAIN users THEN Return(th) ELSE Goto(th, 146)
          /\ Install(store)
          /\ UNCHANGED uuid_tweets
       \/ /\ f.pc = 146
          /\ IF Len(f.content) > MaxContentLen THEN Return(th) ELSE Goto(th, 149)
          /\ Install(store)
          /\ UNCHANGED uuid_tweets
       \/ /\ f.pc = 149
          /\ NewTweetId <= MaxPosts
          /\ uuid_tweets' = NewTweetId
          /\ threads' = [threads EXCEPT ![th] =
               [ op |-> "create_tweet", pc |-> 165,
                 tweet |-> [ id |-> NewTweetId, type |-> "tweet",
                             user_id |-> f.user_id,
                             content |-> Some(f.content), created_at |-> clock,
                             hashtags |-> _extract_hashtags(f.content),
                             mentions |-> _extract_mentions(f.content),
                             original_tweet_id |-> None ],
                 todo |-> _extract_hashtags(f.content) ]]
          /\ Install(store)
       \/ /\ f.pc = 165
          /\ Install([store EXCEPT !.tweets = Append(@, f.tweet)])
          /\ Goto(th, 166)
          /\ UNCHANGED uuid_tweets
       \/ /\ f.pc = 166
          /\ Install([store EXCEPT !.likes = DictSet(@, f.tweet.id, {})])
          /\ Goto(th, 45)
          /\ UNCHANGED uuid_tweets
       \/ /\ f.pc = 45
          /\ IF f.todo = <<>>
             THEN Install(store) /\ Return(th)
             ELSE /\ Install([store EXCEPT
                       !.hashtag_index = IndexOne(@, Head(f.todo), f.tweet.id)])
                  /\ threads' = [threads EXCEPT ![th] = [@ EXCEPT !.todo = Tail(@)]]
          /\ UNCHANGED uuid_tweets
    /\ UNCHANGED <<clock, twin>>

NextSteps ==
  \/ CreateStepUser
  \/ FollowUserCall
  \/ FollowUserStep
  \/ UnfollowUserCall
  \/ UnfollowUserStep
  \/ CreateTweetCall
  \/ CreateTweetStep

SpecSteps == Init /\ [][NextSteps]_vars

\* ------------------------------------------------ concurrent registrations
\* the handler answers with a status code; the thread keeps the answer until
\* its next request
Answer(th, request, code) ==
  threads' = [threads EXCEPT ![th] =
                [op |-> "answered", request |-> request, status |-> code]]
\* the thread serves no request
Free(th) == threads[th].op \in {"idle", "answered"}

RegisterUsernames == {<<"a">>, <<"A">>, <<"b">>}

\* the threads that run create_user and have not stored their user yet
Registering ==
  {th \in ThreadIds : threads[th].op = "create_user" /\ threads[th].pc \in {64, 70, 81}}
\* the ids uuid4 has returned to threads that have not stored them yet
DrawnUserIds ==
  {threads[th].user.id : th \in {x \in Registering : threads[x].pc = 81}}
\* the id uuid4 returns to a thread at line 70: one never returned before
NewStepUserId == Cardinality(DOMAIN users \cup DrawnUserIds) + 1

\* a request for POST /users arrives at a free thread; UserCreate has
\* stripped the names, and line 63, which only fills a local, has run
CreateUserCall ==
  \E th \in ThreadIds, n \in RegisterUsernames :
    /\ Free(th)
    /\ Strip(n) # <<>> /\ Strip(StepDisplayName) # <<>>
    /\ Cardinality(DOMAIN users) + Cardinality(Registering) < MaxUsers
    /\ threads' = [threads EXCEPT ![th] =
                     [op |-> "create_user", pc |-> 64, username |-> Strip(n),
                      display_name |-> Strip(StepDisplayName), bio |-> None,
                      normalized |-> Lower(Strip(n))]]
    /\ UNCHANGED <<users, usernames, tweets, followers, following, likes,
                   hashtag_index, uuid_tweets, clock, twin>>

\* one statement of create_user; lines 70 to 79, which only fill locals, are
\* one step
CreateUserStep ==
  \E th \in ThreadIds :
    LET f == threads[th]
        request == [handler |-> "create_user", normalized |-> f.normalized]
    IN
    /\ f.op = "create_user"
    /\ \/ /\ f.pc = 64
          /\ IF f.normalized \in DOMAIN usernames
             THEN Answer(th, request, 409) ELSE Goto(th, 70)
          /\ Install(store)
       \/ /\ f.pc = 70
          /\ threads' = [threads EXCEPT ![th] =
               [ op |-> "create_user", pc |-> 81, normalized |-> f.normalized,
                 user |-> [ id |-> NewStepUserId, username |-> f.username,
                            display_name |-> f.display_name, bio |-> f.bio,
                            created_at |-> clock ] ]]
          /\ Install(store)
       \/ /\ f.pc = 81
          /\ Install([store EXCEPT !.users = DictSet(@, f.user.id, f.user)])
          /\ Goto(th, 82)
       \/ /\ f.pc = 82
          /\ Install([store EXCEPT !.usernames = DictSet(@, f.normalized, f.user.id)])
          /\ Goto(th, 83)
       \/ /\ f.pc = 83
          /\ Install([store EXCEPT !.followers = DictSet(@, f.user.id, {})])
          /\ Goto(th, 84)
       \/ /\ f.pc = 84
          /\ Install([store EXCEPT !.following = DictSet(@, f.user.id, {})])
          /\ Goto(th, 86)
       \/ /\ f.pc = 86
          /\ Install(store)
          /\ Answer(th, request, 201)
    /\ UNCHANGED <<uuid_tweets, clock, twin>>

NextRegister ==
  \/ CreateUserCall
  \/ CreateUserStep

SpecRegister == Init /\ [][NextRegister]_vars

\* ------------------------------------------- concurrent deletes and likes
\* POST /tweets, served whole
CreateRaceTweet ==
  \E u \in DOMAIN users, c \in StepContents :
    LET r == create_tweet(store, NewTweetId, clock, u, c) IN
    /\ r.status = 201
    /\ NewTweetId <= MaxPosts
    /\ Install(r.st)
    /\ uuid_tweets' = NewTweetId
    /\ UNCHANGED <<clock, twin, threads>>

\* a request for DELETE /tweets/{tweet_id} arrives at an idle thread
DeleteTweetCall ==
  \E th \in ThreadIds, t \in TweetIds :
    /\ threads[th] = Idle
    /\ threads' = [threads EXCEPT ![th] =
                     [op |-> "delete_tweet", pc |-> 196, tweet_id |-> t]]
    /\ UNCHANGED <<users, usernames, tweets, followers, following, likes,
                   hashtag_index, uuid_tweets, clock, twin>>

\* one statement of delete_tweet and of _deindex_hashtags, whose loop takes
\* the tags of `todo` one by one; line 52 only fetches the tag's list, which
\* the index never replaces, and runs with line 53.  An exception that no
\* handler catches is answered 500.
DeleteTweetStep ==
  \E th \in ThreadIds :
    LET f == threads[th]
        request == [handler |-> "delete_tweet", tweet_id |-> f.tweet_id]
        lst == IndexGet(hashtag_index, Head(f.todo))
    IN
    /\ f.op = "delete_tweet"
    /\ \/ /\ f.pc = 196
          /\ IF f.tweet_id \notin TweetKeys(store)
             THEN Answer(th, request, 404)
             ELSE threads' = [threads EXCEPT ![th] =
                    [ op |-> "delete_tweet", pc |-> 51, tweet_id |-> f.tweet_id,
                      todo |-> TweetOf(store, f.tweet_id).hashtags ]]
          /\ Install(store)
       \/ /\ f.pc = 51
          /\ IF f.todo = <<>> THEN Goto(th, 202) ELSE Goto(th, 53)
          /\ Install(store)
       \/ /\ f.pc = 53
          /\ IF f.tweet_id \in Range(lst)
             THEN Goto(th, 54)
             ELSE threads' = [threads EXCEPT ![th] = [@ EXCEPT !.pc = 51, !.todo = Tail(@)]]
          /\ Install(store)
       \/ /\ f.pc = 54
          /\ IF f.tweet_id \in Range(lst)
             THEN /\ Install([store EXCEPT
                       !.hashtag_index = DeindexOne(@, Head(f.todo), f.tweet_id)])
                  /\ threads' = [threads EXCEPT ![th] =
                                   [@ EXCEPT !.pc = 51, !.todo = Tail(@)]]
             ELSE /\ Install(store)
                  /\ Answer(th, request, 500)
       \/ /\ f.pc = 202
          /\ Install([store EXCEPT !.likes = DictPop(@, f.tweet_id)])
          /\ Goto(th, 204)
       \/ /\ f.pc = 204
          /\ IF f.tweet_id \in TweetKeys(store)
             THEN /\ Install([store EXCEPT
                       !.tweets = SelectSeq(@, LAMBDA t : t.id # f.tweet_id)])
                  /\ Answer(th, request, 204)
             ELSE /\ Install(store)
                  /\ Answer(th, request, 500)
    /\ UNCHANGED <<uuid_tweets, clock, twin>>

\* a request for POST /tweets/{tweet_id}/like arrives at an idle thread while
\* no other like is being served
LikeTweetCall ==
  \E th \in ThreadIds, t \in TweetIds, u \in UserIds :
    /\ threads[th] = Idle
    /\ \A ot \in ThreadIds : threads[ot].op # "like_tweet"
    /\ threads' = [threads EXCEPT ![th] =
                     [op |-> "like_tweet", pc |-> 39, tweet_id |-> t, user_id |-> u,
                      likers |-> {}]]
    /\ UNCHANGED <<users, usernames, tweets, followers, following, likes,
                   hashtag_index, uuid_tweets, clock, twin>>

\* one statement of like_tweet.  `likers` is the set object line 41 returned:
\* while storage.likes has an entry for the post it is that entry (no other
\* like is served, so nothing else can have made the entry), and once
\* delete_tweet has popped the entry it is the thread's own.
LikeTweetStep ==
  \E th \in ThreadIds :
    LET f == threads[th]
        request == [handler |-> "like_tweet", tweet_id |-> f.tweet_id]
        likers == IF f.tweet_id \in DOMAIN likes THEN likes[f.tweet_id] ELSE f.likers
    IN
    /\ f.op = "like_tweet"
    /\ \/ /\ f.pc = 39
          /\ IF f.tweet_id \notin TweetKeys(store)
             THEN Answer(th, request, 404) ELSE Goto(th, 41)
          /\ Install(store)
       \/ /\ f.pc = 41
          /\ Install([store EXCEPT !.likes = SetDefault(@, f.tweet_id, {})])
          /\ threads' = [threads EXCEPT ![th] =
               [@ EXCEPT !.pc = 43, !.likers = DictGet(likes, f.tweet_id, {})]]
       \/ /\ f.pc = 43
          /\ IF f.user_id \in likers THEN Answer(th, request, 409) ELSE Goto(th, 49)
          /\ Install(store)
       \/ /\ f.pc = 49
          /\ IF f.tweet_id \in DOMAIN likes
             THEN Install([store EXCEPT !.likes[f.tweet_id] = @ \cup {f.user_id}])
             ELSE Install(store)
          /\ Answer(th, request, 200)
    /\ UNCHANGED <<uuid_tweets, clock, twin>>

NextRace ==
  \/ CreateStepUser
  \/ CreateRaceTweet
  \/ DeleteTweetCall
  \/ DeleteTweetStep
  \/ LikeTweetCall
  \/ LikeTweetStep

SpecRace == Init /\ [][NextRace]_vars

\* ------------------------------------------------------ a second process
\* The same application started a second time: the same handlers on stores of
\* its own, which start empty.  Its first user registers as "a".
TwinUsername == <<"a">>
TwinDisplayName == <<"A">>

TwinCreateUser ==
  LET uid == Cardinality(DOMAIN twin.st.users) + 1
      r == create_user(twin.st, uid, clock, TwinUsername, TwinDisplayName, None)
  IN /\ r.status = 201 => uid <= MaxUsers
     /\ twin' = [twin EXCEPT !.st = r.st]
     /\ UNCHANGED <<users, usernames, tweets, followers, following, likes,
                    hashtag_index, uuid_tweets, clock, threads>>

TwinCreateTweet ==
  \E u \in UserIds, c \in TagContents :
    LET r == create_tweet(twin.st, twin.uuid_tweets + 1, clock, u, c) IN
    /\ r.status = 201 => twin.uuid_tweets + 1 <= MaxPosts
    /\ twin' = [st |-> r.st,
                uuid_tweets |-> IF r.status = 201 THEN twin.uuid_tweets + 1
                                ELSE twin.uuid_tweets]
    /\ UNCHANGED <<users, usernames, tweets, followers, following, likes,
                   hashtag_index, uuid_tweets, clock, threads>>

TwinDeleteTweet ==
  \E t \in TweetIds :
    /\ twin' = [twin EXCEPT !.st = delete_tweet(twin.st, t).st]
    /\ UNCHANGED <<users, usernames, tweets, followers, following, likes,
                   hashtag_index, uuid_tweets, clock, threads>>

NextTwin ==
  \/ CreateUser
  \/ CreateTaggedTweet
  \/ DeleteTweet
  \/ TwinCreateUser
  \/ TwinCreateTweet
  \/ TwinDeleteTweet

\* two processes, each serving its own history of requests
SpecTwin == Init /\ [][NextTwin]_vars

\* ================================================================ claims
\* the follow edge (a, b) as follow_user detects it
Edge(a, b) == b \in DictGet(following, a, {})
AllKeys == DOMAIN users \cup DOMAIN following \cup DOMAIN followers \cup UserIds

\* C1: after any sequence of createUser, follow and unfollow calls the two
\* adjacency views agree: b is in following(a) iff a is in followers(b).
C1_FollowSymmetry ==
  \A a \in AllKeys, b \in AllKeys :
    b \in DictGet(following, a, {}) <=> a \in DictGet(followers, b, {})

\* an edge (a, b) is recorded while (b, a) is not
C1_Witness ==
  \E a \in DOMAIN users, b \in DOMAIN users :
    /\ b \in following[a] /\ a \in followers[b]
    /\ a \notin following[b] /\ b \notin followers[a]

\* the valid createUser requests among the inputs
ValidCreate(n, d) == Strip(n) # <<>> /\ Strip(d) # <<>>

\* C2: no two distinct users have usernames equal after lowercasing; createUser
\* with a username whose lowercased form is registered returns 409 and creates no
\* user; usernames maps each registered lowercased username to its one owner.
C2_UsernameUnique ==
  /\ \A u \in DOMAIN users, v \in DOMAIN users :
       u # v => Lower(users[u].username) # Lower(users[v].username)
  /\ DOMAIN usernames = {Lower(users[u].username) : u \in DOMAIN users}
  /\ \A u \in DOMAIN users : usernames[Lower(users[u].username)] = u
  /\ \A n \in Usernames, d \in DisplayNames, b \in Bios :
       (ValidCreate(n, d) /\ Lower(Strip(n)) \in DOMAIN usernames) =>
         LET r == create_user(store, NewUserId, clock, n, d, b) IN
         r.status = 409 /\ r.st = store

\* a registered name is requested again in another casing, and rejected
C2_Witness ==
  \E u \in DOMAIN users, n \in Usernames, d \in DisplayNames, b \in Bios :
    /\ ValidCreate(n, d)
    /\ Strip(n) # users[u].username
    /\ Lower(Strip(n)) = Lower(users[u].username)
    /\ create_user(store, NewUserId, clock, n, d, b).status = 409

\* C3: follow(a, a) for an existing user is rejected with 400, and no user id is
\* ever in its own following set or its own followers set.
C3_NoSelfEdge ==
  /\ \A a \in AllKeys :
       a \notin DictGet(following, a, {}) /\ a \notin DictGet(followers, a, {})
  /\ \A a \in DOMAIN users :
       LET r == follow_user(store, a, a) IN r.status = 400 /\ r.st = store

\* a user who follows somebody asks to follow themself
C3_Witness ==
  \E a \in DOMAIN users :
    following[a] # {} /\ follow_user(store, a, a).status = 400
\* a rejected request leaves the stores as they were
Atomic(r) == r.status >= 400 => r.st = store

\* C4: whenever createUser, updateUser, createPost, retweet, quote, deletePost,
\* follow, unfollow, like or unlike returns an error, all seven stores are exactly
\* as they were before the call.
C4_RejectedLeavesStores ==
  /\ \A n \in Usernames, d \in DisplayNames, b \in Bios :
       Atomic(create_user(store, NewUserId, clock, n, d, b))
  /\ \A u \in UserIds, d \in UpdateDisplayNames, b \in UpdateBios :
       Atomic(update_user(store, u, d, b))
  /\ \A u \in UserIds, c \in Contents :
       Atomic(create_tweet(store, NewTweetId, clock, u, c))
  /\ \A t \in TweetIds, u \in UserIds :
       Atomic(create_retweet(store, NewTweetId, clock, t, u))
  /\ \A t \in TweetIds, u \in UserIds, c \in Contents :
       Atomic(create_quote_tweet(store, NewTweetId, clock, t, u, c))
  /\ \A t \in TweetIds : Atomic(delete_tweet(store, t))
  /\ \A a \in UserIds, b \in UserIds :
       Atomic(follow_user(store, a, b)) /\ Atomic(unfollow_user(store, a, b))
  /\ \A t \in TweetIds, u \in UserIds :
       Atomic(like_tweet(store, t, u)) /\ Atomic(unlike_tweet(store, t, u))

\* a state in which a follow, a like, a quote and a createUser are all rejected
C4_Witness ==
  \E a \in DOMAIN users, b \in DOMAIN users, t \in TweetKeys(store) :
    /\ follow_user(store, a, b).status = 409
    /\ like_tweet(store, t, a).status = 409
    /\ \E c \in Contents :
         create_quote_tweet(store, NewTweetId, clock, t, NoSuchId, c).status = 404
    /\ \E n \in Usernames, d \in DisplayNames :
         create_user(store, NewUserId, clock, n, d, None).status = 409

\* the view GET /tweets/{t} returns for a live post
ViewOf(S, t) == Val(get_tweet(S, t))

\* C5: for every live post the likeCount returned by like and unlike and the
\* like_count of the post's view equal the number of users in the post's like
\* set; a freshly created post has likeCount 0.
C5_LikeCountLive ==
  /\ \A t \in TweetKeys(store) :
       /\ t \in DOMAIN likes
       /\ ViewOf(store, t).like_count = Cardinality(likes[t])
       /\ \A u \in UserIds :
            LET l == like_tweet(store, t, u)
                ul == unlike_tweet(store, t, u)
            IN /\ l.status = 200 =>
                    /\ l.like_count = Cardinality(l.st.likes[t])
                    /\ l.like_count = ViewOf(l.st, t).like_count
               /\ ul.status = 200 =>
                    /\ ul.like_count = Cardinality(ul.st.likes[t])
                    /\ ul.like_count = ViewOf(ul.st, t).like_count
  /\ \A r \in TweetKeys(store) :
       LET v == ViewOf(store, r) IN
       ~IsNone(v.original_tweet) =>
         Val(v.original_tweet).like_count = Cardinality(likes[Val(v.original_tweet_id)])
  /\ \A u \in UserIds, t \in TweetIds, c \in Contents :
       LET ct == create_tweet(store, NewTweetId, clock, u, c)
           cr == create_retweet(store, NewTweetId, clock, t, u)
           cq == create_quote_tweet(store, NewTweetId, clock, t, u, c)
       IN /\ ct.status = 201 => ViewOf(ct.st, NewTweetId).like_count = 0
          /\ cr.status = 201 => ViewOf(cr.st, NewTweetId).like_count = 0
          /\ cq.status = 201 => ViewOf(cq.st, NewTweetId).like_count = 0

\* a post liked by two users, one of whom unlikes it and is told 1
C5_Witness ==
  \E t \in TweetKeys(store), u \in UserIds :
    /\ Cardinality(likes[t]) = 2
    /\ unlike_tweet(store, t, u).status = 200
    /\ unlike_tweet(store, t, u).like_count = 1
    /\ \E w \in UserIds : like_tweet(store, t, w).status = 200

\* C6: the UserView is computed from the relations: followersCount is the number
\* of users that follow u, followingCount the number of users u follows, and
\* tweetCount the number of live posts of any kind whose author is u, so it drops
\* by one when one of u's posts is deleted.
PostsBy(S, u) == {t \in TweetKeys(S) : TweetOf(S, t).user_id = u}
C6_UserViewCounts ==
  \A u \in DOMAIN users :
    LET v == Val(get_user(store, u)) IN
    /\ v.followers_count = Cardinality({a \in DOMAIN users : Edge(a, u)})
    /\ v.following_count = Cardinality({b \in DOMAIN users : Edge(u, b)})
    /\ v.following_count = Cardinality({b \in DOMAIN users : u \in followers[b]})
    /\ v.tweet_count = Cardinality(PostsBy(store, u))
    /\ \A t \in PostsBy(store, u) :
         LET d == delete_tweet(store, t) IN
         d.status = 204 /\ Val(get_user(d.st, u)).tweet_count = v.tweet_count - 1

\* a followed user whose two live posts are not both original tweets
C6_Witness ==
  \E u \in DOMAIN users :
    /\ Val(get_user(store, u)).followers_count = 1
    /\ Val(get_user(store, u)).tweet_count = 2
    /\ \E t \in PostsBy(store, u) : TweetOf(store, t).type # "tweet"

RECURSIVE SumOver(_, _)
SumOver(f, set) ==
  IF set = {} THEN 0
  ELSE LET x == CHOOSE y \in set : TRUE IN f[x] + SumOver(f, set \ {x})

Edges(S) == {e \in (DOMAIN S.users) \X (DOMAIN S.users) : e[2] \in DictGet(S.following, e[1], {})}

\* C7: follow(a, b) between two distinct existing users succeeds exactly when b
\* is not already in following(a); when b is, it returns 409 and the stores are
\* unchanged; the edge is never recorded twice and the counts add up to the
\* number of distinct edges.
C7_FollowOnce ==
  /\ \A a \in DOMAIN users, b \in DOMAIN users :
       a # b =>
         LET r == follow_user(store, a, b) IN
         /\ r.status = 200 <=> b \notin following[a]
         /\ b \in following[a] => r.status = 409 /\ r.st = store
         /\ r.status = 200 =>
              /\ Edges(r.st) = Edges(store) \cup {<<a, b>>}
              /\ Cardinality(Edges(r.st)) = Cardinality(Edges(store)) + 1
              /\ Val(get_user(r.st, a)).following_count
                   = Val(get_user(store, a)).following_count + 1
              /\ Val(get_user(r.st, b)).followers_count
                   = Val(get_user(store, b)).followers_count + 1
  /\ SumOver([u \in DOMAIN users |-> Val(get_user(store, u)).following_count], DOMAIN users)
       = Cardinality(Edges(store))
  /\ SumOver([u \in DOMAIN users |-> Val(get_user(store, u)).followers_count], DOMAIN users)
       = Cardinality(Edges(store))

\* b already follows a, a does not follow b: follow(b, a) is a 409, follow(a, b) a 200
C7_Witness ==
  \E a \in DOMAIN users, b \in DOMAIN users :
    /\ a # b
    /\ follow_user(store, b, a).status = 409
    /\ follow_user(store, a, b).status = 200

\* C8: unfollow(a, b) returns 404 when either user does not exist or a does not
\* follow b, leaving the graph unchanged; when the edge exists it succeeds and
\* removes a from followers(b) and b from following(a), so b is no longer in a's
\* following list nor a in b's followers list.
C8_Unfollow ==
  \A a \in UserIds, b \in UserIds :
    LET r == unfollow_user(store, a, b) IN
    IF a \in DOMAIN users /\ b \in DOMAIN users /\ Edge(a, b)
    THEN /\ r.status = 200
         /\ a \notin r.st.followers[b]
         /\ b \notin r.st.following[a]
         /\ b \notin Val(get_following(r.st, a))
         /\ a \notin Val(get_followers(r.st, b))
         /\ Edges(r.st) = Edges(store) \ {<<a, b>>}
    ELSE r.status = 404 /\ r.st = store

\* a follows b and b follows a: unfollow(a, b) succeeds and keeps the edge (b, a)
C8_Witness ==
  \E a \in DOMAIN users, b \in DOMAIN users :
    /\ Edge(a, b) /\ Edge(b, a)
    /\ unfollow_user(store, a, b).status = 200
    /\ Edges(unfollow_user(store, a, b).st) = {<<b, a>>}
    /\ unfollow_user(store, a, NoSuchId).status = 404

\* C9: like(u, p) on a live post that u already likes returns 409 and leaves the
\* like set and its count unchanged.
C9_LikeOnce ==
  \A t \in TweetKeys(store), u \in UserIds :
    u \in DictGet(likes, t, {}) =>
      LET r == like_tweet(store, t, u) IN
      /\ r.status = 409
      /\ r.st = store
      /\ ViewOf(r.st, t).like_count = ViewOf(store, t).like_count

\* a live post that a user already likes
C9_Witness ==
  \E t \in TweetKeys(store), u \in DOMAIN users :
    u \in likes[t] /\ like_tweet(store, t, u).status = 409

\* C10: unlike(u, p) returns 404 when p is not live and when p is live but u is
\* not in its like set, without changing any like set; like(u, p) on a post that
\* is not live returns 404 and creates no like set for p.
C10_UnlikeLikeNotFound ==
  \A t \in TweetIds, u \in UserIds :
    LET ul == unlike_tweet(store, t, u)
        l == like_tweet(store, t, u)
    IN /\ t \notin TweetKeys(store) =>
            /\ ul.status = 404 /\ ul.st = store
            /\ l.status = 404 /\ l.st = store
            /\ t \notin DOMAIN l.st.likes
       /\ (t \in TweetKeys(store) /\ u \notin likes[t]) =>
            ul.status = 404 /\ ul.st = store

\* one post was deleted, another is live and liked by somebody else than u
C10_Witness ==
  \E t \in TweetKeys(store), d \in 1..uuid_tweets, u \in UserIds :
    /\ d \notin TweetKeys(store)
    /\ likes[t] # {} /\ u \notin likes[t]
    /\ unlike_tweet(store, t, u).status = 404
    /\ unlike_tweet(store, d, u).status = 404
    /\ like_tweet(store, d, u).status = 404

\* C11: like and unlike are inverse on a live post: like(u, p) followed by
\* unlike(u, p) restores p's like set and every other store to the state before
\* the like, and a subsequent like(u, p) succeeds again (it is not a 409) and
\* yields the same like set as the first like did.
C11_LikeUnlikeInverse ==
  \A t \in TweetKeys(store), u \in UserIds :
    LET l == like_tweet(store, t, u)
        ul == unlike_tweet(l.st, t, u)
        l2 == like_tweet(ul.st, t, u)
    IN l.status = 200 =>
         /\ ul.status = 200
         /\ ul.st.likes[t] = likes[t]
         /\ ul.st = store
         /\ l2.status = 200
         /\ l2.st.likes[t] = l.st.likes[t]
         /\ l2.st = l.st

\* a post somebody likes, and a user who does not like it yet
C11_Witness ==
  \E t \in TweetKeys(store), u \in DOMAIN users :
    /\ likes[t] # {} /\ u \notin likes[t]
    /\ like_tweet(store, t, u).status = 200
    /\ unlike_tweet(like_tweet(store, t, u).st, t, u).status = 200

\* the ids uuid4 has handed out to posts, and those of them that are not live
IssuedIds == 1..uuid_tweets
DeletedIds == IssuedIds \ TweetKeys(store)
\* tweet_id is in the index list of some hashtag
Indexed(S, tweet_id) ==
  \E i \in 1..Len(S.hashtag_index) : tweet_id \in Range(S.hashtag_index[i].ids)

\* C12: deletePost(p) on a live post succeeds once; every later deletePost(p) and
\* getPost(p) returns 404, the repeated delete changes nothing, and the first
\* delete's cleanup (p absent from the hashtag index, no like set for p) still
\* holds afterwards, whatever requests were served in between.
C12_DeleteOnce ==
  /\ \A t \in TweetKeys(store) :
       LET d == delete_tweet(store, t)
           again == delete_tweet(d.st, t)
       IN /\ d.status = 204
          /\ again.status = 404 /\ again.st = d.st
          /\ IsNone(get_tweet(d.st, t))
          /\ ~Indexed(d.st, t) /\ t \notin DOMAIN d.st.likes
  /\ \A t \in DeletedIds :
       LET again == delete_tweet(store, t) IN
       /\ again.status = 404 /\ again.st = store
       /\ IsNone(get_tweet(store, t))
       /\ ~Indexed(store, t) /\ t \notin DOMAIN likes

\* a post that carried a hashtag was deleted and another post was stored since
C12_Witness ==
  \E t \in DeletedIds, r \in TweetKeys(store) :
    /\ t < r
    /\ hashtag_index # <<>>
    /\ delete_tweet(store, t).status = 404
    /\ delete_tweet(store, r).status = 204

\* C13: a successful deletePost(p) removes the record of p, removes p's id from
\* the index list of every hashtag recorded on p, and removes p's like set, and it
\* changes nothing else: every other post (the retweets and quotes of p among
\* them), every other like set, the follow graph and the users are unchanged.
C13_DeleteFrame ==
  \A t \in TweetKeys(store) :
    LET d == delete_tweet(store, t) IN
    /\ d.status = 204
    /\ TweetKeys(d.st) = TweetKeys(store) \ {t}
    /\ d.st.tweets = SelectSeq(tweets, LAMBDA x : x.id # t)
    /\ \A r \in TweetKeys(store) \ {t} :
         r \in TweetKeys(d.st) /\ TweetOf(d.st, r) = TweetOf(store, r)
    /\ DOMAIN d.st.likes = DOMAIN likes \ {t}
    /\ \A r \in DOMAIN likes \ {t} : d.st.likes[r] = likes[r]
    /\ Len(d.st.hashtag_index) = Len(hashtag_index)
    /\ \A i \in 1..Len(hashtag_index) :
         /\ d.st.hashtag_index[i].tag = hashtag_index[i].tag
         /\ d.st.hashtag_index[i].ids = SelectSeq(hashtag_index[i].ids, LAMBDA x : x # t)
    /\ d.st.users = users /\ d.st.usernames = usernames
    /\ d.st.followers = followers /\ d.st.following = following

\* a liked post with a hashtag, and a live retweet or quote of it that is liked too
C13_Witness ==
  \E t \in TweetKeys(store), r \in TweetKeys(store) :
    /\ TweetOf(store, r).original_tweet_id = Some(t)
    /\ TweetOf(store, t).hashtags # <<>>
    /\ likes[t] # {} /\ likes[r] # {}
    /\ Edges(store) # {}
    /\ r \in TweetKeys(delete_tweet(store, t).st)

\* the lists the feed endpoints return in the stores S, and the ids a list holds
FeedLists(S) ==
  {Val(get_timeline(S, u)) : u \in DOMAIN S.users}
    \cup {Val(get_user_tweets(S, u)) : u \in DOMAIN S.users}
    \cup {Val(get_mentions(S, u)) : u \in DOMAIN S.users}
    \cup {get_tweets_by_hashtag(S, g) : g \in QueryTags}
IdsOf(list) == {list[i].id : i \in 1..Len(list)}
\* the view v refers to a post that is live in S
RefersToLive(S, v) ==
  ~IsNone(v.original_tweet_id) /\ Val(v.original_tweet_id) \in TweetKeys(S)
\* the posts that are retweets or quotes of o
ReferencesTo(S, o) == {r \in TweetKeys(S) : TweetOf(S, r).original_tweet_id = Some(o)}

\* C14: after the original post O of a retweet or quote R is deleted, R stays
\* live and every read that returns R (getPost, timeline, postsByAuthor,
\* postsByHashtag, mentionsOf) succeeds with R's embedded original empty; the
\* embedded original is present exactly when R refers to a post that is live.
C14_OrphanReads ==
  /\ \A r \in TweetKeys(store) :
       /\ ~IsNone(get_tweet(store, r))
       /\ ~IsNone(Val(get_tweet(store, r)).original_tweet)
            <=> RefersToLive(store, Val(get_tweet(store, r)))
       /\ ~IsNone(Val(get_tweet(store, r)).original_tweet) =>
            Val(Val(get_tweet(store, r)).original_tweet).id
              = Val(TweetOf(store, r).original_tweet_id)
  /\ \A list \in FeedLists(store) : \A i \in 1..Len(list) :
       /\ list[i].id \in TweetKeys(store)
       /\ ~IsNone(list[i].original_tweet) <=> RefersToLive(store, list[i])
  /\ \A o \in TweetKeys(store) : \A r \in ReferencesTo(store, o) :
       LET d == delete_tweet(store, o) IN
       /\ r \in TweetKeys(d.st)
       /\ ~IsNone(get_tweet(d.st, r))
       /\ IsNone(Val(get_tweet(d.st, r)).original_tweet)
       /\ Val(get_tweet(d.st, r)).original_tweet_id = Some(o)
       /\ r \in IdsOf(Val(get_user_tweets(d.st, TweetOf(store, r).user_id)))
       /\ \A u \in DOMAIN users :
            /\ r \in IdsOf(Val(get_timeline(store, u)))
                 => r \in IdsOf(Val(get_timeline(d.st, u)))
            /\ r \in IdsOf(Val(get_mentions(store, u)))
                 => r \in IdsOf(Val(get_mentions(d.st, u)))
       /\ \A g \in QueryTags :
            r \in IdsOf(get_tweets_by_hashtag(store, g))
              => r \in IdsOf(get_tweets_by_hashtag(d.st, g))
       /\ \A list \in FeedLists(d.st) : \A i \in 1..Len(list) :
            list[i].id = r => IsNone(list[i].original_tweet)

\* a quote whose original was deleted is listed by a timeline, by its hashtag
\* and among the mentions of a user
C14_Witness ==
  \E r \in TweetKeys(store), u \in DOMAIN users :
    /\ TweetOf(store, r).type = "quote"
    /\ ~RefersToLive(store, TweetOf(store, r))
    /\ r \in IdsOf(Val(get_timeline(store, u)))
    /\ r \in IdsOf(Val(get_mentions(store, u)))
    /\ \E g \in QueryTags : r \in IdsOf(get_tweets_by_hashtag(store, g))

\* the live posts whose recorded hashtag list contains tag, and the tags they carry
LiveWith(S, tag) == {t \in TweetKeys(S) : tag \in Range(TweetOf(S, t).hashtags)}
LiveTags(S) == UNION {Range(TweetOf(S, t).hashtags) : t \in TweetKeys(S)}
IndexTags(S) == {S.hashtag_index[i].tag : i \in 1..Len(S.hashtag_index)}
TrendingTags(S) == {get_trending(S)[i].hashtag : i \in 1..Len(get_trending(S))}
\* the tags a state is asked about
KnownTags(S) == IndexTags(S) \cup {Lower(g) : g \in QueryTags}

\* C15: once every post that carries a hashtag t has been deleted, t does not
\* appear in trending at all (not even with count 0) and postsByHashtag(t) is the
\* empty sequence; t reappears only after a new post carrying t is created.
C15_DeadTagGone ==
  /\ \A i \in 1..Len(get_trending(store)) : get_trending(store)[i].count > 0
  /\ \A g \in KnownTags(store) :
       LiveWith(store, g) = {} =>
         /\ g \notin TrendingTags(store)
         /\ get_tweets_by_hashtag(store, g) = <<>>
         /\ \A u \in UserIds, c \in TagContents :
              LET r == create_tweet(store, NewTweetId, clock, u, c) IN
              r.status = 201 =>
                IF g \in Range(_extract_hashtags(c))
                THEN /\ IdsOf(get_tweets_by_hashtag(r.st, g)) = {NewTweetId}
                     /\ g \in TrendingTags(r.st) \/ Len(get_trending(r.st)) = TrendingLimit
                ELSE /\ g \notin TrendingTags(r.st)
                     /\ get_tweets_by_hashtag(r.st, g) = <<>>
         /\ \A t \in TweetIds :
              LET d == delete_tweet(store, t) IN
              g \notin TrendingTags(d.st) /\ get_tweets_by_hashtag(d.st, g) = <<>>

\* a tag is indexed and all its posts are deleted, while another tag is trending
C15_Witness ==
  \E g \in IndexTags(store) :
    /\ LiveWith(store, g) = {}
    /\ TrendingTags(store) # {}
    /\ g \notin TrendingTags(store)

\* C16: trending returns at most 10 entries in non-increasing order of count;
\* each entry's count is at least 1 and equals the number of live posts whose
\* recorded hashtag list contains that tag; no tag left out of the result has a
\* strictly larger live count than a tag that is included.
C16_TrendingTop ==
  LET T == get_trending(store) IN
  /\ Len(T) <= TrendingLimit
  /\ \A i \in 1..Len(T), j \in 1..Len(T) :
       /\ i < j => T[i].count >= T[j].count
       /\ i # j => T[i].hashtag # T[j].hashtag
  /\ \A i \in 1..Len(T) :
       /\ T[i].count >= 1
       /\ T[i].count = Cardinality(LiveWith(store, T[i].hashtag))
  /\ \A g \in KnownTags(store) \ TrendingTags(store) :
       \A i \in 1..Len(T) : Cardinality(LiveWith(store, g)) <= T[i].count
  /\ Cardinality(LiveTags(store)) <= TrendingLimit => TrendingTags(store) = LiveTags(store)

\* ten entries with two different counts, and a live tag that is left out
C16_Witness ==
  LET T == get_trending(store) IN
  /\ Len(T) = TrendingLimit
  /\ T[1].count > T[TrendingLimit].count
  /\ LiveTags(store) \ TrendingTags(store) # {}

\* C18: postsByHashtag(tag), which reads the hashtag index, returns exactly the
\* live posts whose recorded hashtag list contains the lowercased tag (the set a
\* full scan of the live posts gives), for any casing of the queried tag, and an
\* empty list for a tag that was never used.
C18_HashtagFeed ==
  \A g \in QueryTags :
    LET list == get_tweets_by_hashtag(store, g) IN
    /\ IdsOf(list) = LiveWith(store, Lower(g))
    /\ Len(list) = Cardinality(LiveWith(store, Lower(g)))
    /\ \A i \in 1..Len(list) :
         list[i].id \in TweetKeys(store) /\ Lower(g) \in Range(list[i].hashtags)
    /\ list = get_tweets_by_hashtag(store, Lower(g))
    /\ Lower(g) \notin IndexTags(store) => list = <<>>

\* a tag asked for in capitals lists a post, the post of another tag was
\* deleted, and one of the tags asked for was never used
C18_Witness ==
  \E g \in QueryTags, h \in IndexTags(store), n \in QueryTags :
    /\ g # Lower(g)
    /\ Len(get_tweets_by_hashtag(store, g)) >= 1
    /\ LiveWith(store, h) = {}
    /\ Lower(n) \notin IndexTags(store)
    /\ get_tweets_by_hashtag(store, n) = <<>>

\* the live posts of S with the hashtag lists recorded on them
LivePosts(S) ==
  {[id |-> S.tweets[i].id, hashtags |-> S.tweets[i].hashtags] : i \in 1..Len(S.tweets)}

\* C17: trending breaks ties from the current state alone: whenever two
\* operation histories reach states with the same set of live posts carrying the
\* same hashtag lists, trending returns the same sequence in both, including the
\* relative order of tags with equal counts and the choice of which equal-count
\* tags survive the truncation to 10.
C17_TrendingFromLivePosts ==
  LivePosts(store) = LivePosts(twin.st) => get_trending(store) = get_trending(twin.st)

\* the live posts whose author u follows
FollowedPosts(S, u) ==
  {t \in TweetKeys(S) : TweetOf(S, t).user_id \in DictGet(S.following, u, {})}

\* C19: timeline(u) for an existing user u returns exactly the live posts
\* (originals, retweets and quotes) whose author is in following(u): it is empty
\* when u follows nobody, a followed user's post disappears from it once that post
\* is deleted or the author is unfollowed, and the timeline of a non-existent user
\* is a 404.
C19_Timeline ==
  \A u \in UserIds :
    IF u \notin DOMAIN users THEN IsNone(get_timeline(store, u))
    ELSE LET list == Val(get_timeline(store, u)) IN
         /\ ~IsNone(get_timeline(store, u))
         /\ IdsOf(list) = FollowedPosts(store, u)
         /\ Len(list) = Cardinality(FollowedPosts(store, u))
         /\ \A i \in 1..Len(list) : list[i] = ViewOf(store, list[i].id)
         /\ DictGet(following, u, {}) = {} => list = <<>>
         /\ \A t \in FollowedPosts(store, u) :
              LET d == delete_tweet(store, t) IN
              IdsOf(Val(get_timeline(d.st, u))) = IdsOf(list) \ {t}
         /\ \A b \in DictGet(following, u, {}) :
              LET uf == unfollow_user(store, u, b) IN
              /\ uf.status = 200
              /\ IdsOf(Val(get_timeline(uf.st, u))) = IdsOf(list) \ PostsBy(store, b)

\* u follows the author of a post and of a later retweet or quote
C19_Witness ==
  \E u \in DOMAIN users :
    LET list == Val(get_timeline(store, u)) IN
    /\ Len(list) = 2
    /\ list[1].type # "tweet" /\ list[2].type = "tweet"
    /\ list[1].created_at > list[2].created_at

\* C20: in every reachable state timeline(u) contains no post authored by u
\* itself, whatever follow, unfollow, post, retweet and quote requests preceded
\* the read.
C20_TimelineNotOwn ==
  \A u \in DOMAIN users :
    \A i \in 1..Len(Val(get_timeline(store, u))) :
      Val(get_timeline(store, u))[i].user_id # u

\* u and b follow each other and each has a live post: u's timeline lists b's
C20_Witness ==
  \E u \in DOMAIN users, b \in DOMAIN users :
    /\ Edge(u, b) /\ Edge(b, u)
    /\ PostsBy(store, u) # {} /\ PostsBy(store, b) # {}
    /\ IdsOf(Val(get_timeline(store, u))) = PostsBy(store, b)

\* C21: timeline, postsByAuthor, postsByHashtag and mentionsOf return posts
\* strictly newest-first: of any two posts in a result the one created later
\* comes before the one created earlier, also when the two carry the same
\* creation timestamp.  (The post created later is the one that drew the later
\* id.)
C21_StrictNewestFirst ==
  \A list \in FeedLists(store) :
    \A i \in 1..Len(list), j \in 1..Len(list) :
      i < j => list[i].id > list[j].id

\* the live posts whose recorded mention list names u's username in some casing
MentioningPosts(S, u) ==
  {t \in TweetKeys(S) :
     \E m \in Range(TweetOf(S, t).mentions) : Lower(m) = Lower(S.users[u].username)}

\* C22: mentionsOf(u) for an existing user u returns exactly the live posts whose
\* recorded mention list contains a string equal to u's username when both are
\* lowercased, whatever casing the mention was typed in and whether the post was
\* created before or after u registered; a deleted post never appears, and a
\* non-existent user yields a 404.
C22_Mentions ==
  \A u \in UserIds :
    IF u \notin DOMAIN users THEN IsNone(get_mentions(store, u))
    ELSE LET list == Val(get_mentions(store, u)) IN
         /\ ~IsNone(get_mentions(store, u))
         /\ IdsOf(list) = MentioningPosts(store, u)
         /\ Len(list) = Cardinality(MentioningPosts(store, u))
         /\ IdsOf(list) \cap DeletedIds = {}
         /\ \A t \in MentioningPosts(store, u) :
              LET d == delete_tweet(store, t) IN
              IdsOf(Val(get_mentions(d.st, u))) = IdsOf(list) \ {t}

\* a post mentions a name in another casing than its owner's, who registered
\* after the post was stored; another post with the mention was deleted
C22_Witness ==
  \E u \in DOMAIN users, t \in TweetKeys(store) :
    /\ t \in IdsOf(Val(get_mentions(store, u)))
    /\ users[u].created_at > TweetOf(store, t).created_at
    /\ users[u].username \notin Range(TweetOf(store, t).mentions)
    /\ DeletedIds # {}

\* C23: every stored post respects its kind's shape: an Original or Quote has a
\* body of at most 280 characters (a body of exactly 280 is accepted, a body of
\* 281 is rejected and creates no post), a Retweet has no body and empty hashtag
\* and mention lists, an Original has no original-post reference, and a Retweet
\* or Quote always has one.
C23_PostShape ==
  /\ \A i \in 1..Len(tweets) :
       LET t == tweets[i] IN
       /\ t.type \in {"tweet", "retweet", "quote"}
       /\ t.type \in {"tweet", "quote"} =>
            ~IsNone(t.content) /\ Len(Val(t.content)) <= 280
       /\ t.type = "retweet" =>
            IsNone(t.content) /\ t.hashtags = <<>> /\ t.mentions = <<>>
       /\ t.type = "tweet" => IsNone(t.original_tweet_id)
       /\ t.type \in {"retweet", "quote"} => ~IsNone(t.original_tweet_id)
  /\ \A u \in DOMAIN users, c \in BodyContents :
       LET r == create_tweet(store, NewTweetId, clock, u, c) IN
       /\ Len(c) <= 280 =>
            /\ r.status = 201
            /\ TweetOf(r.st, NewTweetId).content = Some(c)
       /\ Len(c) >= 281 => r.status >= 400 /\ r.st = store
  /\ \A u \in DOMAIN users, o \in TweetKeys(store), c \in BodyContents :
       LET r == create_quote_tweet(store, NewTweetId, clock, o, u, c) IN
       /\ Len(c) <= 280 =>
            /\ r.status = 201
            /\ TweetOf(r.st, NewTweetId).content = Some(c)
       /\ Len(c) >= 281 => r.status >= 400 /\ r.st = store

\* a stored original of exactly 280 characters, and a retweet of it
C23_Witness ==
  \E o \in TweetKeys(store), r \in TweetKeys(store) :
    /\ TweetOf(store, o).type = "tweet"
    /\ Len(Val(TweetOf(store, o).content)) = 280
    /\ TweetOf(store, r).type = "retweet"
    /\ TweetOf(store, r).original_tweet_id = Some(o)

\* C24: createPost (and quote) with a body longer than 280 characters is
\* rejected with status 400.
C24_TooLongIs400 ==
  /\ \A u \in DOMAIN users, c \in BodyContents :
       Len(c) > 280 => create_tweet(store, NewTweetId, clock, u, c).status = 400
  /\ \A u \in DOMAIN users, o \in TweetKeys(store), c \in BodyContents :
       Len(c) > 280 =>
         create_quote_tweet(store, NewTweetId, clock, o, u, c).status = 400

\* the views the program returns in the stores S: GET /tweets/{id} for the live
\* posts and the entries of the feeds
AllViews(S) ==
  {Val(get_tweet(S, t)) : t \in TweetKeys(S)}
    \cup UNION {{list[i] : i \in 1..Len(list)} : list \in FeedLists(S)}

\* C25: embedding is capped at one level: in any PostView the embedded original,
\* when present, has its own embedded original empty, for reference chains of any
\* length (for example a quote of a retweet of a quote).
C25_OneLevel ==
  \A v \in AllViews(store) :
    ~IsNone(v.original_tweet) =>
      /\ Val(v.original_tweet).id = Val(v.original_tweet_id)
      /\ IsNone(Val(v.original_tweet).original_tweet)
      /\ Val(v.original_tweet).original_tweet_id
           = TweetOf(store, Val(v.original_tweet_id)).original_tweet_id

\* a live quote of a live retweet of a live quote of a live post
C25_Witness ==
  \E q \in TweetKeys(store), r \in TweetKeys(store), p \in TweetKeys(store),
     o \in TweetKeys(store) :
    /\ TweetOf(store, q).type = "quote" /\ TweetOf(store, q).original_tweet_id = Some(r)
    /\ TweetOf(store, r).type = "retweet" /\ TweetOf(store, r).original_tweet_id = Some(p)
    /\ TweetOf(store, p).type = "quote" /\ TweetOf(store, p).original_tweet_id = Some(o)
    /\ Val(ViewOf(store, q).original_tweet).id = r
    /\ IsNone(Val(ViewOf(store, q).original_tweet).original_tweet)

\* the live posts of the given type that refer to t
RefsOfType(S, t, type) ==
  {r \in TweetKeys(S) : TweetOf(S, r).type = type /\ TweetOf(S, r).original_tweet_id = Some(t)}

\* C26: a post's retweetCount equals the number of live Retweet posts whose
\* original reference is that post's id and its quoteCount the number of live
\* Quote posts referencing it; the two counts are independent, each rises by one
\* per retweet or quote created (also when the same user retweets twice), falls
\* by one when such a retweet or quote is deleted, and the view returned by the
\* retweet call itself already embeds the original with the new count.
C26_ReferenceCounts ==
  \A t \in TweetKeys(store) :
    LET v == ViewOf(store, t) IN
    /\ v.retweet_count = Cardinality(RefsOfType(store, t, "retweet"))
    /\ v.quote_count = Cardinality(RefsOfType(store, t, "quote"))
    /\ \A u \in DOMAIN users :
         LET cr == create_retweet(store, NewTweetId, clock, t, u)
             cq == create_quote_tweet(store, NewTweetId, clock, t, u, ChainContent)
         IN /\ cr.status = 201
            /\ ViewOf(cr.st, t).retweet_count = v.retweet_count + 1
            /\ ViewOf(cr.st, t).quote_count = v.quote_count
            /\ Val(ViewOf(cr.st, NewTweetId).original_tweet).id = t
            /\ Val(ViewOf(cr.st, NewTweetId).original_tweet).retweet_count
                 = v.retweet_count + 1
            /\ cq.status = 201
            /\ ViewOf(cq.st, t).quote_count = v.quote_count + 1
            /\ ViewOf(cq.st, t).retweet_count = v.retweet_count
            /\ Val(ViewOf(cq.st, NewTweetId).original_tweet).quote_count
                 = v.quote_count + 1
    /\ \A r \in RefsOfType(store, t, "retweet") :
         LET d == delete_tweet(store, r) IN
         /\ ViewOf(d.st, t).retweet_count = v.retweet_count - 1
         /\ ViewOf(d.st, t).quote_count = v.quote_count
    /\ \A q \in RefsOfType(store, t, "quote") :
         LET d == delete_tweet(store, q) IN
         /\ ViewOf(d.st, t).quote_count = v.quote_count - 1
         /\ ViewOf(d.st, t).retweet_count = v.retweet_count

\* a post retweeted twice by one user and quoted once
C26_Witness ==
  \E t \in TweetKeys(store), r1 \in TweetKeys(store), r2 \in TweetKeys(store) :
    /\ r1 # r2
    /\ {r1, r2} = RefsOfType(store, t, "retweet")
    /\ TweetOf(store, r1).user_id = TweetOf(store, r2).user_id
    /\ ViewOf(store, t).retweet_count = 2
    /\ ViewOf(store, t).quote_count = 1

\* C27: retweet and quote creation require both the referenced post to be live
\* and the acting user to exist at the time of the call: if either is missing
\* the call returns 404 and no post, like set or index entry is created;
\* otherwise a new post is stored whose original reference is the given post id
\* and whose author is the given user.  (The body of the quote is a valid one.)
C27_ReferenceNeedsBoth ==
  \A t \in TweetIds, u \in UserIds :
    LET cr == create_retweet(store, NewTweetId, clock, t, u) IN
    /\ IF t \in TweetKeys(store) /\ u \in DOMAIN users
       THEN /\ cr.status = 201
            /\ TweetKeys(cr.st) = TweetKeys(store) \cup {NewTweetId}
            /\ TweetOf(cr.st, NewTweetId).type = "retweet"
            /\ TweetOf(cr.st, NewTweetId).original_tweet_id = Some(t)
            /\ TweetOf(cr.st, NewTweetId).user_id = u
            /\ cr.st.likes[NewTweetId] = {}
       ELSE /\ cr.status = 404
            /\ cr.st = store
            /\ NewTweetId \notin TweetKeys(cr.st)
            /\ NewTweetId \notin DOMAIN cr.st.likes
            /\ ~Indexed(cr.st, NewTweetId)
    /\ \A c \in Contents :
         Len(c) <= MaxContentLen =>
           LET cq == create_quote_tweet(store, NewTweetId, clock, t, u, c) IN
           IF t \in TweetKeys(store) /\ u \in DOMAIN users
           THEN /\ cq.status = 201
                /\ TweetKeys(cq.st) = TweetKeys(store) \cup {NewTweetId}
                /\ TweetOf(cq.st, NewTweetId).type = "quote"
                /\ TweetOf(cq.st, NewTweetId).original_tweet_id = Some(t)
                /\ TweetOf(cq.st, NewTweetId).user_id = u
                /\ cq.st.likes[NewTweetId] = {}
           ELSE /\ cq.status = 404
                /\ cq.st = store
                /\ NewTweetId \notin TweetKeys(cq.st)
                /\ NewTweetId \notin DOMAIN cq.st.likes
                /\ ~Indexed(cq.st, NewTweetId)

\* a live post, a deleted post and a user: the retweet of the deleted post and
\* the retweet by an unknown user are rejected, the user's retweet is stored
C27_Witness ==
  \E t \in TweetKeys(store), d \in DeletedIds, u \in DOMAIN users :
    /\ create_retweet(store, NewTweetId, clock, d, u).status = 404
    /\ create_retweet(store, NewTweetId, clock, t, NoSuchId).status = 404
    /\ create_retweet(store, NewTweetId, clock, t, u).status = 201
    /\ \E c \in Contents :
         create_quote_tweet(store, NewTweetId, clock, d, u, c).status = 404

\* C28: updateUser changes only the fields supplied: a field left out keeps its
\* previous value, and the user's id, username and creation timestamp, the
\* usernames map, the follow graph and all posts are unchanged by any updateUser
\* call; updateUser on a non-existent id returns 404 and changes nothing.
C28_UpdateFrame ==
  \A u \in UserIds, d \in ProfileDisplayNames, b \in ProfileBios :
    LET r == update_user(store, u, d, b) IN
    IF u \notin DOMAIN users THEN r.status = 404 /\ r.st = store
    ELSE /\ r.status = 200
         /\ DOMAIN r.st.users = DOMAIN users
         /\ r.st.users[u].display_name
              = (IF IsNone(d) THEN users[u].display_name ELSE Val(d))
         /\ r.st.users[u].bio = (IF IsNone(b) THEN users[u].bio ELSE b)
         /\ r.st.users[u].id = users[u].id
         /\ r.st.users[u].username = users[u].username
         /\ r.st.users[u].created_at = users[u].created_at
         /\ \A w \in DOMAIN users \ {u} : r.st.users[w] = users[w]
         /\ r.st.usernames = usernames
         /\ r.st.followers = followers /\ r.st.following = following
         /\ r.st.tweets = tweets /\ r.st.likes = likes
         /\ r.st.hashtag_index = hashtag_index

\* a user with a bio and a changed display name who follows somebody and has a
\* post
C28_Witness ==
  \E u \in DOMAIN users :
    /\ ~IsNone(users[u].bio)
    /\ users[u].display_name = <<"B">>
    /\ following[u] # {}
    /\ PostsBy(store, u) # {}
    /\ update_user(store, u, None, None).st = store

\* C29: in every reachable state every user's display name is non-empty, after
\* any sequence of createUser and updateUser calls.
C29_DisplayNameNonEmpty ==
  \A u \in DOMAIN users : users[u].display_name # <<>>

\* C30: while requests of several callers interleave statement by statement, no
\* read sees a half-made write: if GET /users/{a}/following lists b then
\* GET /users/{b}/followers lists a, and every post in storage.tweets has its
\* like set and is listed by GET /hashtags/{tag}/tweets for each tag it records.
C30_NoTornRead ==
  /\ \A a \in DOMAIN users, b \in DOMAIN users :
       b \in Val(get_following(store, a)) => a \in Val(get_followers(store, b))
  /\ \A i \in 1..Len(tweets) :
       /\ tweets[i].id \in DOMAIN likes
       /\ \A g \in Range(tweets[i].hashtags) :
            tweets[i].id \in IdsOf(get_tweets_by_hashtag(store, g))

\* C31: when two POST /users requests whose usernames are equal after
\* lowercasing interleave statement by statement, at most one of them is
\* answered 201, and no two stored users have the same lowercased username.
C31_UniqueUnderRace ==
  /\ \A u \in DOMAIN users, v \in DOMAIN users :
       u # v => Lower(users[u].username) # Lower(users[v].username)
  /\ \A th \in ThreadIds, ot \in ThreadIds :
       /\ th # ot
       /\ threads[th].op = "answered" /\ threads[ot].op = "answered"
       /\ threads[th].request.handler = "create_user"
       /\ threads[ot].request.handler = "create_user"
       /\ threads[th].request.normalized = threads[ot].request.normalized
       => ~(threads[th].status = 201 /\ threads[ot].status = 201)

\* C32: when DELETE /tweets/{id} requests interleave statement by statement,
\* none of them ends in an exception that no handler catches (a 500), and two
\* requests for the same post are never both answered 204.
C32_DeleteRace ==
  /\ \A th \in ThreadIds :
       threads[th].op = "answered" /\ threads[th].request.handler = "delete_tweet"
         => threads[th].status \in {204, 404}
  /\ \A th \in ThreadIds, ot \in ThreadIds :
       /\ th # ot
       /\ threads[th].op = "answered" /\ threads[ot].op = "answered"
       /\ threads[th].request = threads[ot].request
       /\ threads[th].request.handler = "delete_tweet"
       => ~(threads[th].status = 204 /\ threads[ot].status = 204)

\* C40: when POST /tweets/{p}/like and DELETE /tweets/{p} interleave statement
\* by statement and both have been answered, the delete with 204, storage.likes
\* has no entry for p.
C40_LikeSetGone ==
  \A th \in ThreadIds, ot \in ThreadIds :
    /\ threads[th].op = "answered" /\ threads[ot].op = "answered"
    /\ threads[th].request.handler = "like_tweet"
    /\ threads[ot].request.handler = "delete_tweet"
    /\ threads[ot].request.tweet_id = threads[th].request.tweet_id
    /\ threads[ot].status = 204
    => threads[th].request.tweet_id \notin DOMAIN likes

\* the dicts d and e differ at the key k only
SameBut(d, e, k) ==
  DOMAIN d = DOMAIN e /\ \A x \in DOMAIN d \ {k} : d[x] = e[x]
\* the stores S and T agree on users, usernames, tweets and the hashtag index
SameRecords(S, T) ==
  /\ S.users = T.users /\ S.usernames = T.usernames
  /\ S.tweets = T.tweets /\ S.hashtag_index = T.hashtag_index

\* C33: a successful follow(a, b) or unfollow(a, b) changes following(a) and
\* followers(b) only, by the id b and the id a; a successful like(u, p) or
\* unlike(u, p) changes p's like set only, by the id u.  Users, usernames, posts,
\* the hashtag index and every other adjacency and like set stay as they were.
C33_EdgeFrame ==
  /\ \A a \in UserIds, b \in UserIds :
       LET f == follow_user(store, a, b)
           uf == unfollow_user(store, a, b)
       IN /\ f.status = 200 =>
               /\ SameRecords(f.st, store) /\ f.st.likes = likes
               /\ SameBut(f.st.following, following, a)
               /\ SameBut(f.st.followers, followers, b)
               /\ b \notin following[a] /\ f.st.following[a] = following[a] \cup {b}
               /\ a \notin followers[b] /\ f.st.followers[b] = followers[b] \cup {a}
          /\ uf.status = 200 =>
               /\ SameRecords(uf.st, store) /\ uf.st.likes = likes
               /\ SameBut(uf.st.following, following, a)
               /\ SameBut(uf.st.followers, followers, b)
               /\ b \in following[a] /\ uf.st.following[a] = following[a] \ {b}
               /\ a \in followers[b] /\ uf.st.followers[b] = followers[b] \ {a}
  /\ \A t \in TweetIds, u \in UserIds :
       LET l == like_tweet(store, t, u)
           ul == unlike_tweet(store, t, u)
       IN /\ l.status = 200 =>
               /\ SameRecords(l.st, store)
               /\ l.st.following = following /\ l.st.followers = followers
               /\ SameBut(l.st.likes, likes, t)
               /\ u \notin likes[t] /\ l.st.likes[t] = likes[t] \cup {u}
          /\ ul.status = 200 =>
               /\ SameRecords(ul.st, store)
               /\ ul.st.following = following /\ ul.st.followers = followers
               /\ SameBut(ul.st.likes, likes, t)
               /\ u \in likes[t] /\ ul.st.likes[t] = likes[t] \ {u}

\* b follows a and a can follow b, while a post that is liked stands next to
\* one that can be liked
C33_Witness ==
  \E a \in DOMAIN users, b \in DOMAIN users, t \in TweetKeys(store), p \in TweetKeys(store) :
    /\ Edge(b, a)
    /\ follow_user(store, a, b).status = 200
    /\ unfollow_user(store, b, a).status = 200
    /\ t # p /\ likes[t] # {} /\ hashtag_index # <<>>
    /\ \E u \in UserIds : like_tweet(store, p, u).status = 200
    /\ \E u \in UserIds : unlike_tweet(store, t, u).status = 200

\* the new post of a handler's answer r has nothing on it yet: no likes, no
\* retweets, no quotes, and the index lists it under its own hashtags only
Untouched(r) ==
  LET v == ViewOf(r.st, NewTweetId) IN
  /\ v.like_count = 0 /\ v.retweet_count = 0 /\ v.quote_count = 0
  /\ \A i \in 1..Len(r.st.hashtag_index) :
       NewTweetId \in Range(r.st.hashtag_index[i].ids)
         => r.st.hashtag_index[i].tag \in Range(v.hashtags)

\* C34: ids are never reused.  The id the next createUser, createPost, retweet
\* or quote gets was never handed out before; the id of a deleted post resolves
\* to no post, now and after the next creation; and a new post starts with no
\* likes, no retweets, no quotes and no index entry but those of its own hashtags.
C34_FreshIds ==
  /\ NewUserId \notin DOMAIN users
  /\ TweetKeys(store) \subseteq IssuedIds /\ NewTweetId \notin IssuedIds
  /\ \A d \in DeletedIds : IsNone(get_tweet(store, d))
  /\ \A u \in UserIds, t \in TweetIds, c \in Contents :
       LET ct == create_tweet(store, NewTweetId, clock, u, c)
           cr == create_retweet(store, NewTweetId, clock, t, u)
           cq == create_quote_tweet(store, NewTweetId, clock, t, u, c)
       IN \A r \in {ct, cr, cq} :
            r.status = 201 =>
              /\ Untouched(r)
              /\ TweetKeys(r.st) = TweetKeys(store) \cup {NewTweetId}
              /\ \A d \in DeletedIds : IsNone(get_tweet(r.st, d))

\* a post was retweeted and deleted, its retweet is still there, and a user can
\* post
C34_Witness ==
  \E d \in DeletedIds, t \in TweetKeys(store) :
    /\ d < t
    /\ TweetOf(store, t).original_tweet_id = Some(d)
    /\ \E u \in DOMAIN users, c \in Contents :
         create_tweet(store, NewTweetId, clock, u, c).status = 201

\* C35: with requests served one at a time, the post ids that have a like set
\* are the live post ids in every reachable state: creating a tweet, retweet or
\* quote adds an empty like set for it, delete_tweet removes the post's, and a
\* like or unlike of a post that is not live makes none.
C35_LikeSetsAreLive ==
  /\ DOMAIN likes = TweetKeys(store)
  /\ \A u \in UserIds, t \in TweetIds, c \in Contents :
       LET ct == create_tweet(store, NewTweetId, clock, u, c)
           cr == create_retweet(store, NewTweetId, clock, t, u)
           cq == create_quote_tweet(store, NewTweetId, clock, t, u, c)
       IN \A r \in {ct, cr, cq} :
            r.status = 201 =>
              /\ DOMAIN r.st.likes = DOMAIN likes \cup {NewTweetId}
              /\ r.st.likes[NewTweetId] = {}
  /\ \A t \in TweetKeys(store) :
       LET d == delete_tweet(store, t) IN
       d.status = 204 /\ DOMAIN d.st.likes = DOMAIN likes \ {t}
  /\ \A t \in TweetIds \ TweetKeys(store), u \in UserIds :
       /\ DOMAIN like_tweet(store, t, u).st.likes = DOMAIN likes
       /\ DOMAIN unlike_tweet(store, t, u).st.likes = DOMAIN likes

\* a post was deleted, a live post is liked, and a like of the deleted one is
\* turned down
C35_Witness ==
  \E d \in DeletedIds, t \in TweetKeys(store), u \in DOMAIN users :
    /\ likes[t] # {}
    /\ like_tweet(store, d, u).status = 404
    /\ unlike_tweet(store, d, u).status = 404

\* C36: with requests served one at a time, the hashtag index agrees with the
\* live posts in every reachable state: an id is in the list of tag t exactly
\* when the post is live and records t, no id is twice in a list, and the ids of
\* a list are in the order the posts were created; no list holds a deleted id.
C36_IndexConsistent ==
  /\ \A i \in 1..Len(hashtag_index) :
       LET e == hashtag_index[i] IN
       /\ \A j \in 1..Len(hashtag_index) : hashtag_index[j].tag = e.tag => j = i
       /\ \A t \in TweetIds :
            t \in Range(e.ids)
              <=> t \in TweetKeys(store) /\ e.tag \in Range(TweetOf(store, t).hashtags)
       /\ Range(e.ids) \cap DeletedIds = {}
       /\ \A k \in 1..Len(e.ids), l \in 1..Len(e.ids) : k < l => e.ids[k] < e.ids[l]
  /\ \A t \in TweetKeys(store) :
       \A g \in Range(TweetOf(store, t).hashtags) :
         \E i \in 1..Len(hashtag_index) :
           hashtag_index[i].tag = g /\ t \in Range(hashtag_index[i].ids)

\* a post that carried two hashtags was deleted: the list of one is empty, the
\* list of the other holds the post made since
C36_Witness ==
  \E d \in DeletedIds, i \in 1..Len(hashtag_index), j \in 1..Len(hashtag_index) :
    /\ hashtag_index[i].ids = <<>>
    /\ hashtag_index[j].ids # <<>>
    /\ \A k \in 1..Len(hashtag_index[j].ids) : d < hashtag_index[j].ids[k]

\* the handler's answer r leaves the reference of every post it keeps as it was
KeepsReferences(r) ==
  \A t \in TweetKeys(store) \cap TweetKeys(r.st) :
    TweetOf(r.st, t).original_tweet_id = TweetOf(store, t).original_tweet_id

\* C37: the references between posts have no cycle in any reachable state: a
\* retweet or quote names a post that was created before it (its id was issued
\* earlier), a plain tweet names none, no post names itself, and no request
\* changes the reference of a stored post.
C37_Acyclic ==
  /\ \A t \in TweetKeys(store) :
       LET p == TweetOf(store, t) IN
       IF p.type = "tweet" THEN IsNone(p.original_tweet_id)
       ELSE /\ ~IsNone(p.original_tweet_id)
            /\ Val(p.original_tweet_id) \in IssuedIds
            /\ Val(p.original_tweet_id) < t
  /\ \A u \in UserIds, t \in ChainIds :
       /\ KeepsReferences(create_tweet(store, NewTweetId, clock, u, ChainContent))
       /\ KeepsReferences(create_retweet(store, NewTweetId, clock, t, u))
       /\ KeepsReferences(create_quote_tweet(store, NewTweetId, clock, t, u, ChainContent))
       /\ KeepsReferences(delete_tweet(store, t))
       /\ KeepsReferences(like_tweet(store, t, u))
       /\ KeepsReferences(unlike_tweet(store, t, u))
       /\ KeepsReferences(update_user(store, u, Some(<<"B">>), None))

\* a quote of a retweet of a post that has been deleted
C37_Witness ==
  \E d \in DeletedIds, b \in TweetKeys(store), c \in TweetKeys(store) :
    /\ TweetOf(store, b).original_tweet_id = Some(d)
    /\ TweetOf(store, c).original_tweet_id = Some(b)
    /\ TweetOf(store, b).type = "retweet" /\ TweetOf(store, c).type = "quote"

\* C38: like(u, p) does not ask whether u is a user.  For a live post p and any
\* id u not in p's like set, an id of no user among them, it succeeds, adds u to
\* the set and returns the count raised by one; it is rejected only with 404
\* when p is not live and with 409 when u is in the set already.
C38_LikeByAnyId ==
  \A t \in TweetIds, u \in UserIds :
    LET r == like_tweet(store, t, u) IN
    IF t \notin TweetKeys(store) THEN r.status = 404
    ELSE IF u \in likes[t] THEN r.status = 409
    ELSE /\ r.status = 200
         /\ r.st.likes[t] = likes[t] \cup {u}
         /\ r.like_count = Cardinality(likes[t]) + 1
         /\ ViewOf(r.st, t).like_count = ViewOf(store, t).like_count + 1

\* a post liked under an id of no user, which another such id can like as well
C38_Witness ==
  \E t \in TweetKeys(store), u \in UserIds \ DOMAIN users, w \in UserIds \ DOMAIN users :
    /\ u \in likes[t]
    /\ w \notin likes[t]
    /\ like_tweet(store, t, w).status = 200
    /\ like_tweet(store, t, w).like_count = Cardinality(likes[t]) + 1

\* the count GET /trending gives for the tag g in S, 0 when it does not list g
CountOf(S, g) ==
  LET T == get_trending(S) IN
  IF \E i \in 1..Len(T) : T[i].hashtag = g
  THEN T[CHOOSE i \in 1..Len(T) : T[i].hashtag = g].count
  ELSE 0
\* the feeds of hashtags and of mentions that list the post t in S
TagFeedsWith(S, t) == {g \in KnownTags(S) : t \in IdsOf(get_tweets_by_hashtag(S, g))}
MentionFeedsWith(S, t) == {w \in DOMAIN S.users : t \in IdsOf(Val(get_mentions(S, w)))}

\* C39: hashtags are indexed from a post's own body only.  A quote is indexed
\* under its own hashtags: it is listed by postsByHashtag for each and raises
\* the trending count of each by one.  A retweet adds nothing to the index:
\* the trending counts stay as they were, and the retweet is in no
\* postsByHashtag list and in no mentionsOf list, whatever its original carries.
C39_OwnBodyOnly ==
  /\ \A r \in TweetKeys(store) :
       TweetOf(store, r).type = "retweet" =>
         TagFeedsWith(store, r) = {} /\ MentionFeedsWith(store, r) = {}
  /\ \A t \in TweetIds, u \in UserIds :
       LET cr == create_retweet(store, NewTweetId, clock, t, u) IN
       cr.status = 201 =>
         /\ cr.st.hashtag_index = hashtag_index
         /\ get_trending(cr.st) = get_trending(store)
         /\ TagFeedsWith(cr.st, NewTweetId) = {}
         /\ MentionFeedsWith(cr.st, NewTweetId) = {}
  /\ \A t \in TweetIds, u \in UserIds, c \in Contents :
       LET cq == create_quote_tweet(store, NewTweetId, clock, t, u, c) IN
       cq.status = 201 =>
         /\ TagFeedsWith(cq.st, NewTweetId) = Range(_extract_hashtags(c))
         /\ \A g \in KnownTags(cq.st) :
              CountOf(cq.st, g) = CountOf(store, g)
                                    + (IF g \in Range(_extract_hashtags(c)) THEN 1 ELSE 0)

\* a retweet of a live post that carries a hashtag and mentions a user: the
\* hashtag's count is 1, and a quote with hashtags can be stored
C39_Witness ==
  \E o \in TweetKeys(store), r \in TweetKeys(store), w \in DOMAIN users :
    /\ TweetOf(store, r).type = "retweet"
    /\ TweetOf(store, r).original_tweet_id = Some(o)
    /\ MentioningPosts(store, w) = {o}
    /\ \E g \in Range(TweetOf(store, o).hashtags) : CountOf(store, g) = 1
    /\ \E c \in Contents :
         /\ create_quote_tweet(store, NewTweetId, clock, r, w, c).status = 201
         /\ _extract_hashtags(c) # <<>>
====
